---- MODULE Spec2Model ----
(***************************************************************************)
(* Serial command channel of esp32-wifi-api-dev.                           *)
(*                                                                         *)
(*   - SerialAPIEndpoint  (lib/APIServer/src/SerialAPIEndpoint.h)          *)
(*   - SerialProxy        (lib/APIServer/src/SerialProxy.h)                *)
(*   - SerialFormatter    (lib/APIServer/src/SerialFormatter.h)            *)
(*   - AsyncSerial        (include/AsyncSerial.h)                          *)
(*                                                                         *)
(* An Arduino String is a sequence of one-character strings.               *)
(***************************************************************************)
EXTENDS Integers, Sequences, FiniteSets, TLC

\* ------------------------------------------------------------------------
\* Arduino String operations used by the formatter and the endpoint
\* ------------------------------------------------------------------------

Min(a, b) == IF a < b THEN a ELSE b

\* String::substring(left, right): the characters [left, right), 0-based;
\* the bounds are swapped when left > right, right is clamped to the length,
\* and the result is "" when left is past the end.
Substring(s, left, right) ==
    LET lo == Min(left, right)
        hi == IF left > right THEN left ELSE right
        r  == Min(hi, Len(s))
    IN  IF lo >= r THEN <<>> ELSE SubSeq(s, lo + 1, r)

\* String::substring(left): from left to the end.
SubstringFrom(s, left) == Substring(s, left, Len(s))

\* String::startsWith(prefix)
StartsWith(s, p) == Len(s) >= Len(p) /\ SubSeq(s, 1, Len(p)) = p

\* String::endsWith(suffix)
EndsWith(s, p) == Len(s) >= Len(p) /\ SubSeq(s, Len(s) - Len(p) + 1, Len(s)) = p

\* String::indexOf(ch): 0-based index of the first occurrence, -1 when absent.
IndexOf(s, ch) ==
    IF \E i \in 1..Len(s) : s[i] = ch
    THEN (CHOOSE i \in 1..Len(s) : s[i] = ch /\ \A j \in 1..(i - 1) : s[j] # ch) - 1
    ELSE -1

\* isspace() of the characters the model uses.
IsSpace(ch) == ch \in {" ", "\n", "\t", "\r"}

\* String::trim(): drops leading and trailing whitespace.
Trim(s) ==
    IF \A i \in 1..Len(s) : IsSpace(s[i]) THEN <<>>
    ELSE LET a == CHOOSE i \in 1..Len(s) :
                    ~IsSpace(s[i]) /\ \A j \in 1..(i - 1) : IsSpace(s[j])
             b == CHOOSE i \in 1..Len(s) :
                    ~IsSpace(s[i]) /\ \A j \in (i + 1)..Len(s) : IsSpace(s[j])
         IN  SubSeq(s, a, b)

\* ------------------------------------------------------------------------
\* String literals of the source
\* ------------------------------------------------------------------------

S_GET   == <<"G","E","T">>
S_SET   == <<"S","E","T">>
S_LIST  == <<"L","I","S","T">>
S_EVT   == <<"E","V","T">>
S_true  == <<"t","r","u","e">>
S_false == <<"f","a","l","s","e">>
S_api   == <<"a","p","i">>
S_AuthPassword == <<"a","u","t","h",".","p","a","s","s","w","o","r","d">>
S_ErrorEq == <<":"," ","e","r","r","o","r","=">>
S_Lt    == <<"<"," ">>
S_GetApi == <<"<"," ","G","E","T"," ","a","p","i","\n">>
E_InvalidCommand == <<"i","n","v","a","l","i","d"," ","c","o","m","m","a","n","d">>
E_MethodNotFound == <<"m","e","t","h","o","d"," ","n","o","t"," ","f","o","u","n","d">>
E_AuthFailed == <<"a","u","t","h","e","n","t","i","c","a","t","i","o","n"," ","f","a","i","l","e","d">>
E_WrongRequest == <<"w","r","o","n","g"," ","r","e","q","u","e","s","t"," ","o","r"," ","p","a","r","a","m","e","t","e","r","s">>
R_CommandTooLong == <<"<"," ","E","R","R","O","R",":"," ","e","r","r","o","r","=","c","o","m","m","a","n","d"," ","t","o","o"," ","l","o","n","g","\n">>
R_CommandTimeout == <<"<"," ","E","R","R","O","R",":"," ","e","r","r","o","r","=","c","o","m","m","a","n","d"," ","t","i","m","e","o","u","t","\n">>

\* ------------------------------------------------------------------------
\* JSON values (ArduinoJson): an object is a sequence of key/value pairs in
\* insertion order; a value is an object, a bool, an int or a string.
\* ------------------------------------------------------------------------

JObj(pairs) == [t |-> "obj", kv |-> pairs]
JBool(b)    == [t |-> "bool", b |-> b]
JInt(n)     == [t |-> "int", n |-> n]
JStr(s)     == [t |-> "str", s |-> s]
KV(k, v)    == [k |-> k, v |-> v]

Digit(d) == <<"0","1","2","3","4","5","6","7","8","9">>[d + 1]

RECURSIVE NatToString(_)
NatToString(n) == IF n < 10 THEN <<Digit(n)>>
                  ELSE NatToString(n \div 10) \o <<Digit(n % 10)>>

\* String(int)
IntToString(n) == IF n < 0 THEN <<"-">> \o NatToString(-n) ELSE NatToString(n)

\* The value rendering of formatResponse: bool, int, otherwise as<String>().
RenderValue(v) ==
    CASE v.t = "bool" -> (IF v.b THEN S_true ELSE S_false)
      [] v.t = "int"  -> IntToString(v.n)
      [] OTHER        -> v.s

\* The addParams lambda of formatResponse: appends " key=value" for every
\* leaf of the object, in iteration order, keys joined with '.'; `first` is
\* the lambda's captured flag.  Returns [text, first].
RECURSIVE AddParams(_, _, _)
AddParams(pairs, prefix, acc) ==
    IF pairs = <<>> THEN acc
    ELSE LET p   == Head(pairs)
             key == IF prefix = <<>> THEN p.k ELSE prefix \o <<".">> \o p.k
             nxt == IF p.v.t = "obj"
                    THEN AddParams(p.v.kv, key, acc)
                    ELSE [text  |-> acc.text
                                    \o (IF acc.first THEN <<>> ELSE <<",">>)
                                    \o <<" ">> \o key \o <<"=">> \o RenderValue(p.v),
                          first |-> FALSE]
         IN  AddParams(Tail(pairs), prefix, nxt)

\* SerialFormatter::formatResponse
formatResponse(method, path, response) ==
    AddParams(response.kv, <<>>,
              [text |-> method \o <<" ">> \o path \o <<":">>, first |-> TRUE]).text

\* SerialFormatter::formatEvent
formatEvent(event, data) ==
    S_EVT \o <<" ">> \o event \o <<":"," ">> \o formatResponse(S_EVT, event, data)

\* SerialFormatter::formatError
formatError(method, path, error) ==
    method \o <<" ">> \o path \o S_ErrorEq \o error

\* A std::map<String,String> is a function from its keys to their values.
EmptyMap == [k \in {} |-> <<>>]
MapPut(m, k, v) == [x \in (DOMAIN m) \cup {k} |-> IF x = k THEN v ELSE m[x]]
MapErase_KeepsKey(m, k) == m

\* std::map::erase(key)
MapErase(m, k) == [x \in (DOMAIN m) \ {k} |-> m[x]]

\* One extracted parameter of parseCommandLine: trim, split at the first
\* '=', trim both sides, strip one pair of surrounding quotes, store.
StoreParam(params, rawParam) ==
    LET param    == Trim(rawParam)
        equalPos == IndexOf(param, "=")
    IN  IF equalPos = -1 THEN params
        ELSE LET key   == Trim(Substring(param, 0, equalPos))
                 val0  == Trim(SubstringFrom(param, equalPos + 1))
                 value == IF StartsWith(val0, <<"\"">>) /\ EndsWith(val0, <<"\"">>)
                          THEN Substring(val0, 1, Len(val0) - 1)
                          ELSE val0
             IN  MapPut(params, key, value)

RECURSIVE ParseParams_LastByteCut(_, _, _, _, _)
ParseParams_LastByteCut(paramsStr, i, start, inQuotes, params) ==
    IF i >= Len(paramsStr) THEN params
    ELSE LET c    == paramsStr[i + 1]
             last == (i = Len(paramsStr) - 1)
         IN  IF c = "\""
             THEN ParseParams_LastByteCut(paramsStr, i + 1, start, ~inQuotes, params)
             ELSE IF (c = "," \/ last) /\ ~inQuotes
             THEN ParseParams_LastByteCut(paramsStr, i + 1, i + 1, inQuotes,
                      StoreParam(params, Substring(paramsStr, start, i)))
             ELSE ParseParams_LastByteCut(paramsStr, i + 1, start, inQuotes, params)

\* The parameter loop of parseCommandLine, from 0-based position i.
RECURSIVE ParseParams(_, _, _, _, _)
ParseParams(paramsStr, i, start, inQuotes, params) ==
    IF i >= Len(paramsStr) THEN params
    ELSE LET c    == paramsStr[i + 1]
             last == (i = Len(paramsStr) - 1)
         IN  IF c = "\""
             THEN ParseParams(paramsStr, i + 1, start, ~inQuotes, params)
             ELSE IF (c = "," \/ last) /\ ~inQuotes
             THEN ParseParams(paramsStr, i + 1, i + 1, inQuotes,
                      StoreParam(params,
                          Substring(paramsStr, start, IF last THEN i + 1 ELSE i)))
             ELSE ParseParams(paramsStr, i + 1, start, inQuotes, params)

\* SerialFormatter::parseCommandLine: the out-parameters method, path and
\* params start empty (the caller's fresh SerialCommand).
parseCommandLine(line) ==
    LET none == [method |-> <<>>, path |-> <<>>, params |-> EmptyMap]
    IN  IF Len(line) < 4 THEN none
        ELSE LET input == IF StartsWith(line, <<">"," ">>) THEN SubstringFrom(line, 2)
                          ELSE IF StartsWith(line, <<">">>) THEN SubstringFrom(line, 1)
                          ELSE line
                 spacePos == IndexOf(input, " ")
             IN  IF spacePos = -1 THEN none
                 ELSE LET method   == Substring(input, 0, spacePos)
                          rest     == SubstringFrom(input, spacePos + 1)
                          colonPos == IndexOf(rest, ":")
                      IN  IF colonPos = -1
                          THEN [method |-> method, path |-> rest, params |-> EmptyMap]
                          ELSE [method |-> method,
                                path   |-> Substring(rest, 0, colonPos),
                                params |-> ParseParams(SubstringFrom(rest, colonPos + 1),
                                                       0, 0, FALSE, EmptyMap)]


\* ------------------------------------------------------------------------
\* The external registry (APIServer) as the endpoint consumes it
\* ------------------------------------------------------------------------

P_WifiStatus == <<"w","i","f","i","/","s","t","a","t","u","s">>
P_Sec        == <<"s","e","c">>
P_Cfg        == <<"c","f","g">>
PW_Configured == <<"p","w">>

\* One APIMethod: its auth descriptor, its request parameters as [name,
\* required], and what its handler returns and stores in the response.
Method(authEnabled, password, requestParams, ok, response) ==
    [auth |-> [enabled |-> authEnabled, password |-> password],
     requestParams |-> requestParams, handlerOk |-> ok, response |-> response]

\* APIServer::_methods of the modelled device: a status getter, a method
\* behind authentication, and a setter with one required parameter.
Methods ==
    (P_WifiStatus :> Method(FALSE, <<>>, {}, TRUE,
                        JObj(<<KV(<<"a","p">>, JObj(<<KV(<<"e","n","a","b","l","e","d">>, JBool(TRUE))>>))>>)))
    @@ (P_Sec :> Method(TRUE, PW_Configured, {}, TRUE, JObj(<<>>)))
    @@ (P_Cfg :> Method(FALSE, <<>>, {[name |-> <<"v">>, required |-> TRUE]}, TRUE, JObj(<<KV(<<"o","k">>, JBool(TRUE))>>)))

\* APIServer::_excludedPathsByProtocol["serial"]
ExcludedPaths == {}

\* APIServer::getMethods("serial")
getMethods == [p \in (DOMAIN Methods) \ ExcludedPaths |-> Methods[p]]

\* The top-level key of a flattened parameter name: the text before the
\* first '.', which is the key handleCommand creates in the JsonObject.
TopKey(k) == IF IndexOf(k, ".") = -1 THEN k ELSE Substring(k, 0, IndexOf(k, "."))

\* An absent argument object (nullptr).
NoArgs == [null |-> TRUE]
IsNull(args) == args.null
ArgsOf(params) == [null |-> FALSE, params |-> params]

\* APIServer::validateParams
validateParams(method, args) ==
    IF IsNull(args) THEN method.requestParams = {}
    ELSE \A param \in method.requestParams :
            param.required => \E k \in DOMAIN args.params : TopKey(k) = param.name

\* APIServer::executeMethod: [ok, response, ran] where ran tells whether the
\* handler was invoked.
executeMethod(path, args) ==
    IF path \in ExcludedPaths \/ path \notin DOMAIN Methods
    THEN [ok |-> FALSE, response |-> JObj(<<>>), ran |-> FALSE]
    ELSE IF ~validateParams(Methods[path], args)
    THEN [ok |-> FALSE, response |-> JObj(<<>>), ran |-> FALSE]
    ELSE IF Methods[path].handlerOk
    THEN [ok |-> TRUE, response |-> Methods[path].response, ran |-> TRUE]
    ELSE [ok |-> FALSE, response |-> JObj(<<>>), ran |-> TRUE]

\* SerialFormatter::formatAPIList of the array handleCommand passes: the
\* JsonArray is unbound, so nothing is added to it and the list is empty.
formatAPIList == <<"\n">>

\* ------------------------------------------------------------------------
\* SerialAPIEndpoint::handleCommand
\* ------------------------------------------------------------------------

\* The validity test of handleCommand.
IsValidCommand(cmd) ==
    /\ cmd.method # <<>>
    /\ cmd.path # <<>>
    /\ cmd.method \in {S_GET, S_SET, S_LIST}

\* The authentication test of handleCommand for a method with auth enabled.
AuthOk(method, params) ==
    /\ S_AuthPassword \in DOMAIN params
    /\ params[S_AuthPassword] = method.auth.password

\* The registry calls one handleCommand makes.
NoCalls == [getMethods |-> FALSE, getAPIDoc |-> FALSE, exec |-> <<>>]

\* handleCommand(pendingCmd): the response it stores and the registry calls
\* it makes; exec lists the executeMethod calls as [path, args, ran].
handleCommand(command) ==
    LET cmd == parseCommandLine(command)
    IN  IF ~IsValidCommand(cmd)
        THEN [response |-> S_Lt \o formatError(cmd.method, cmd.path, E_InvalidCommand),
              calls |-> NoCalls]
        ELSE IF cmd.method = S_GET /\ cmd.path = S_api
        THEN [response |-> S_GetApi \o formatAPIList,
              calls |-> [NoCalls EXCEPT !.getAPIDoc = TRUE]]
        ELSE IF cmd.path \notin DOMAIN getMethods
        THEN [response |-> S_Lt \o formatError(cmd.method, cmd.path, E_MethodNotFound),
              calls |-> [NoCalls EXCEPT !.getMethods = TRUE]]
        ELSE LET method == getMethods[cmd.path]
             IN  IF method.auth.enabled /\ ~AuthOk(method, cmd.params)
                 THEN [response |-> S_Lt \o formatError(cmd.method, cmd.path, E_AuthFailed),
                       calls |-> [NoCalls EXCEPT !.getMethods = TRUE]]
                 ELSE LET params == IF method.auth.enabled
                                    THEN MapErase(cmd.params, S_AuthPassword)
                                    ELSE cmd.params
                          args   == IF DOMAIN params = {} THEN NoArgs ELSE ArgsOf(params)
                          res    == executeMethod(cmd.path, args)
                          call   == [path |-> cmd.path, args |-> args, ran |-> res.ran]
                      IN  [response |->
                               IF res.ok
                               THEN S_Lt \o formatResponse(cmd.method, cmd.path, res.response)
                               ELSE S_Lt \o formatError(cmd.method, cmd.path, E_WrongRequest),
                           calls |-> [NoCalls EXCEPT !.getMethods = TRUE,
                                                     !.exec = <<call>>]]


\* ------------------------------------------------------------------------
\* SerialProxy (lib/APIServer/src/SerialProxy.h): two ring buffers that keep
\* one slot free
\* ------------------------------------------------------------------------

\* Sizes of the model (the source's are 1024, 1024).
INPUT_BUFFER_SIZE == 3
OUTPUT_BUFFER_SIZE == 3

NUL == "NUL"

\* SerialProxy::SerialProxy(): zeroed static storage, indices 0, not begun.
NewProxy ==
    [initialized |-> FALSE,
     inputBuffer  |-> [i \in 0..(INPUT_BUFFER_SIZE - 1) |-> NUL],
     inputReadIndex |-> 0, inputWriteIndex |-> 0,
     outputBuffer |-> [i \in 0..(OUTPUT_BUFFER_SIZE - 1) |-> NUL],
     outputReadIndex |-> 0, outputWriteIndex |-> 0]

\* SerialProxy::begin
ProxyBegin(p) == [p EXCEPT !.initialized = TRUE]

\* SerialProxy::available
ProxyAvailable(p) ==
    IF ~p.initialized THEN 0
    ELSE (p.inputWriteIndex - p.inputReadIndex + INPUT_BUFFER_SIZE) % INPUT_BUFFER_SIZE

\* The int -1 that read() and readOutput() return for "no byte".
NoByte == "-1"

\* SerialProxy::read: [data, proxy], data = NoByte when nothing is available.
ProxyRead(p) ==
    IF ~p.initialized \/ ProxyAvailable(p) = 0 THEN [data |-> NoByte, proxy |-> p]
    ELSE [data  |-> p.inputBuffer[p.inputReadIndex],
          proxy |-> [p EXCEPT !.inputReadIndex = (@ + 1) % INPUT_BUFFER_SIZE]]

WriteToInput_NoFullTest(p, data) ==
    IF ~p.initialized THEN [n |-> 0, proxy |-> p]
    ELSE [n |-> 1,
          proxy |-> [p EXCEPT !.inputBuffer[p.inputWriteIndex] = data,
                              !.inputWriteIndex = (@ + 1) % INPUT_BUFFER_SIZE]]

\* SerialProxy::writeToInput: [n, proxy], n = 0 when the byte is refused.
WriteToInput(p, data) ==
    LET next == (p.inputWriteIndex + 1) % INPUT_BUFFER_SIZE
    IN  IF ~p.initialized \/ next = p.inputReadIndex THEN [n |-> 0, proxy |-> p]
        ELSE [n |-> 1,
              proxy |-> [p EXCEPT !.inputBuffer[p.inputWriteIndex] = data,
                                  !.inputWriteIndex = next]]

\* SerialProxy::write: [n, proxy], n = 0 when the byte is refused.
ProxyWrite(p, data) ==
    LET next == (p.outputWriteIndex + 1) % OUTPUT_BUFFER_SIZE
    IN  IF ~p.initialized \/ next = p.outputReadIndex THEN [n |-> 0, proxy |-> p]
        ELSE [n |-> 1,
              proxy |-> [p EXCEPT !.outputBuffer[p.outputWriteIndex] = data,
                                  !.outputWriteIndex = next]]

\* SerialProxy::availableForWrite
AvailableForWrite(p) ==
    IF ~p.initialized THEN 0
    ELSE (p.outputWriteIndex - p.outputReadIndex + OUTPUT_BUFFER_SIZE) % OUTPUT_BUFFER_SIZE

\* SerialProxy::readOutput: [data, proxy], data = NoByte when nothing is pending.
ReadOutput(p) ==
    IF ~p.initialized \/ AvailableForWrite(p) = 0 THEN [data |-> NoByte, proxy |-> p]
    ELSE [data  |-> p.outputBuffer[p.outputReadIndex],
          proxy |-> [p EXCEPT !.outputReadIndex = (@ + 1) % OUTPUT_BUFFER_SIZE]]

\* The bytes held by the input and the output buffer, oldest first.
InputContents(p) ==
    [i \in 1..ProxyAvailable(p) |->
        p.inputBuffer[(p.inputReadIndex + i - 1) % INPUT_BUFFER_SIZE]]
OutputContents(p) ==
    [i \in 1..AvailableForWrite(p) |->
        p.outputBuffer[(p.outputReadIndex + i - 1) % OUTPUT_BUFFER_SIZE]]


\* ------------------------------------------------------------------------
\* SerialAPIEndpoint: constants and state
\* ------------------------------------------------------------------------

\* Sizes of the model (the source's are 256, 128, 10, 4096).
RX_CHUNK_SIZE == 8
TX_CHUNK_SIZE == 16
QUEUE_SIZE == 2
API_BUFFER_SIZE == 30

MAX_TX_CHUNKS == 0
MODE_RESET_DELAY == 50

\* Bounds of the environment: command-channel or pass-through messages the
\* client sends, events the application pushes, bytes it writes to the proxy
\* and bytes it reads from it.
MaxMessages == 2
MaxEvents == 3
MaxAppWrites == 1
MaxAppReads == 1

VARIABLES
    mode,               \* _mode
    apiBuffer,          \* _apiBuffer[0 .. _apiBufferIndex - 1]
    apiBufferOverflow,  \* _apiBufferOverflow
    currentCommand,     \* _currentCommand (PendingCommand)
    eventQueue,         \* _eventQueue
    sinceTxRx,          \* millis() - _lastTxRx at the last poll, saturated
    proxy,              \* SerialAPIEndpoint::proxy
    serialIn,           \* bytes the line holds for _serial.read()
    wire,               \* the writes made with _serial.write(), in order
    inbox,              \* client bytes of the current message still to arrive
    budget,             \* what the environment may still do
    received,           \* command lines completed by a newline in API_RECEIVE
    handled,            \* command lines handed to handleCommand
    execLog,            \* the executeMethod calls made
    appRead,            \* bytes the application has read from the proxy
    pushedInFlight,     \* an event was pushed while a command was in flight
    last                \* what the latest poll did

\* The variables of the endpoint.
evars == <<mode, apiBuffer, apiBufferOverflow, currentCommand, eventQueue,
           sinceTxRx, proxy, serialIn, wire, inbox, budget, received, handled,
           execLog, appRead, pushedInFlight, last>>

\* AsyncSerial (include/AsyncSerial.h), its proxies and its line.
VARIABLES
    state,              \* AsyncSerial::_state
    proxies,            \* _proxies[0 .. _proxyCount - 1]
    flushOwner,         \* _flushLock._owner (0 is nullptr)
    rxBuffer,           \* SerialProxy::_rxBuffer of every proxy object
    txBuffer,           \* SerialProxy::_txBuffer of every proxy object
    flushPc,            \* where a running AsyncSerial::flush call stands
    flushResult,        \* what the latest flush call returned: "true", "false"
    crashed,            \* poll dereferenced a null lock owner
    lineIn,             \* bytes the line holds for Serial.read()
    lineInbox,          \* bytes of the inbound stream still to arrive
    lineOut,            \* the writes made with Serial.write(), in order
    lineRead,           \* the bytes taken with Serial.read(), in order
    pushed,             \* the pushToRx calls made on every proxy object
    regAt,              \* Len(lineRead) when a proxy was registered
    rxRead,             \* bytes the owner of a proxy has read from it
    arrivals,           \* chunks in which the stream has arrived so far
    abudget             \* what the application may still do

avars == <<state, proxies, flushOwner, rxBuffer, txBuffer, flushPc, flushResult,
           crashed, lineIn, lineInbox, lineOut, lineRead, pushed, regAt, rxRead,
           arrivals, abudget>>

\* What the callers of AsyncSerial and the receiver on its line observe of it.
VARIABLES
    flushClock,         \* time a running flush call has taken: 0 less than
                        \* SERIAL_TIMEOUT since the call, 1 at least that
                        \* since the call, 2 at least that since startTime
    regResult,          \* what the latest registerProxy call returned
    sinceSent           \* milliseconds since bytes of a proxy were last written
                        \* to the line, up to the inter-message delay

fvars == <<flushClock, regResult, sinceSent>>

\* A RingBuffer<T, SIZE> object on its own, with its caller.
VARIABLES
    ring,               \* the RingBuffer: _buffer, _readIndex, _writeIndex, _count
    ringAccepted,       \* the items of the writes accepted since the latest
                        \* clear, in order
    ringOut,            \* the items the reads returned since then, in order
    ringLast            \* the latest call: operation, argument, result, item
                        \* returned, the RingBuffer before the call

rvars == <<ring, ringAccepted, ringOut, ringLast>>

\* The functions of SerialFormatter and handleCommand on their own, with
\* their caller.
VARIABLES
    formatterCall,      \* the latest call: function, the method, path and data
                        \* the text was made from, the text, the parsed command
    commandCall         \* the latest handleCommand call: the command line, the
                        \* response stored, the registry calls made

pvars == <<formatterCall, commandCall>>

vars == <<evars, avars, fvars, rvars, pvars>>

\* A call of a SerialFormatter function as the caller sees it.
FormatterCall(fn, method, path, data, text, parsed) ==
    [fn |-> fn, method |-> method, path |-> path, data |-> data,
     text |-> text, parsed |-> parsed]
NoFormatterCall == FormatterCall("-", <<>>, <<>>, [t |-> "-"], <<>>, <<>>)

\* A call of handleCommand as the caller sees it; called tells a call from
\* none.
CommandCall(called, line, response, calls) ==
    [called |-> called, line |-> line, response |-> response, calls |-> calls]
NoCommandCall == CommandCall(FALSE, <<>>, <<>>, NoCalls)

\* _apiBufferIndex
apiBufferIndex == Len(apiBuffer)

\* PendingCommand()
NewPendingCommand ==
    [command |-> <<>>, response |-> <<>>, sendIndex |-> 0, processed |-> FALSE]

\* What one poll did: the case of the switch it ran, the bytes it read from
\* the line, the bytes it offered to proxy.writeToInput with the result of
\* each call, and the number of bytes it wrote to the line.
PollDid(case, rd, px, wr) == [case |-> case, rd |-> rd, px |-> px, wr |-> wr]
NoPoll == PollDid("-", <<>>, <<>>, 0)

\* What the environment does in one run: a dialogue of commands, a command
\* among events, a command, an event and pass-through output together, or
\* a message the application reads from the proxy.
Scenarios ==
    { [messages |-> MaxMessages, events |-> 0, writes |-> 0, reads |-> 0],
      [messages |-> 1, events |-> MaxEvents, writes |-> 0, reads |-> 0],
      [messages |-> 1, events |-> 1, writes |-> MaxAppWrites, reads |-> 0],
      [messages |-> 1, events |-> 0, writes |-> 0, reads |-> MaxAppReads] }

\* ------------------------------------------------------------------------
\* AsyncSerial: constants, RingBuffer, constructed state
\* ------------------------------------------------------------------------

\* Sizes of the model (the source's are 1024 and 256).
BUFFER_SIZE == 2
ASYNC_RX_CHUNK_SIZE == 2

MAX_PROXIES == 8

\* The default interMessageDelay of a SerialProxy.
INTER_MESSAGE_DELAY == 5

\* The SerialProxy<BUFFER_SIZE> objects the application constructs.
NumProxies == 2
ProxyIds == 1..NumProxies

\* Bounds of the application: bytes it writes to proxies, bytes it reads
\* from them, flush calls it makes; and the send room the line may report.
MaxTxWrites == 2
MaxRxReads == 1
MaxFlushes == 1
MaxSpace == 2

\* The inbound byte stream the line delivers: one byte more than an inbound
\* buffer holds.
Stream == SubSeq(<<"a", "b", "c", "d", "e", "f">>, 1, BUFFER_SIZE + 1)

\* The template parameter SIZE of the RingBuffer checked on its own (the
\* proxies use BUFFER_SIZE).
RING_SIZE == 3

\* RingBuffer<T, SIZE>::RingBuffer(), SIZE = n
NewRing(n) ==
    [buffer |-> [i \in 0..(n - 1) |-> NUL],
     readIndex |-> 0, writeIndex |-> 0, count |-> 0]

\* The RingBuffer<uint8_t, BUFFER_SIZE> of a SerialProxy
NewRingBuffer == NewRing(BUFFER_SIZE)

\* SIZE of a RingBuffer object
RbSize(rb) == Cardinality(DOMAIN rb.buffer)

RECURSIVE RbWriteBulk_Prefix(_, _)
RECURSIVE RbStoreAll(_, _)

RbWrite_AcceptsWhenFull(rb, data) ==
    IF rb.count > RbSize(rb) THEN [ok |-> FALSE, rb |-> rb]
    ELSE [ok |-> TRUE,
          rb |-> [rb EXCEPT !.buffer[rb.writeIndex] = data,
                            !.writeIndex = (@ + 1) % RbSize(rb),
                            !.count = @ + 1]]

\* RingBuffer::write(const T&): [ok, rb]
RbWrite(rb, data) ==
    IF rb.count >= RbSize(rb) THEN [ok |-> FALSE, rb |-> rb]
    ELSE [ok |-> TRUE,
          rb |-> [rb EXCEPT !.buffer[rb.writeIndex] = data,
                            !.writeIndex = (@ + 1) % RbSize(rb),
                            !.count = @ + 1]]

RbRead_IndexKept(rb) ==
    IF rb.count = 0 THEN [ok |-> FALSE, data |-> NUL, rb |-> rb]
    ELSE [ok |-> TRUE,
          data |-> rb.buffer[rb.readIndex],
          rb |-> [rb EXCEPT !.count = @ - 1]]

\* RingBuffer::read(T&): [ok, data, rb]
RbRead(rb) ==
    IF rb.count = 0 THEN [ok |-> FALSE, data |-> NUL, rb |-> rb]
    ELSE [ok |-> TRUE,
          data |-> rb.buffer[rb.readIndex],
          rb |-> [rb EXCEPT !.readIndex = (@ + 1) % RbSize(rb),
                            !.count = @ - 1]]

\* RingBuffer::available
RbAvailable(rb) == rb.count

\* The items a RingBuffer holds, oldest first.
RbContents(rb) ==
    [i \in 1..rb.count |-> rb.buffer[(rb.readIndex + i - 1) % RbSize(rb)]]

RbWriteBulk_Prefix(rb, data) ==
    IF data = <<>> THEN [ok |-> TRUE, rb |-> rb]
    ELSE IF ~RbWrite(rb, Head(data)).ok THEN [ok |-> FALSE, rb |-> rb]
    ELSE [ok |-> RbWriteBulk_Prefix(RbWrite(rb, Head(data)).rb, Tail(data)).ok,
          rb |-> RbWriteBulk_Prefix(RbWrite(rb, Head(data)).rb, Tail(data)).rb]

\* The loop of the bulk write: the items stored from _writeIndex on.
RbStoreAll(rb, data) ==
    IF data = <<>> THEN rb
    ELSE RbStoreAll([rb EXCEPT !.buffer[rb.writeIndex] = Head(data),
                               !.writeIndex = (@ + 1) % RbSize(rb)],
                    Tail(data))

\* RingBuffer::write(const T*, size_t): [ok, rb]
RbWriteBulk(rb, data) ==
    IF rb.count + Len(data) > RbSize(rb) THEN [ok |-> FALSE, rb |-> rb]
    ELSE [ok |-> TRUE,
          rb |-> [RbStoreAll(rb, data) EXCEPT !.count = @ + Len(data)]]

\* RingBuffer::peek(T&) const: [ok, data]
RbPeek(rb) ==
    IF rb.count = 0 THEN [ok |-> FALSE, data |-> NUL]
    ELSE [ok |-> TRUE, data |-> rb.buffer[rb.readIndex]]

\* RingBuffer::clear
RbClear(rb) == [rb EXCEPT !.readIndex = 0, !.writeIndex = 0, !.count = 0]

\* What one call on the RingBuffer did.
RingCall(op, arg, ok, data, before) ==
    [op |-> op, arg |-> arg, ok |-> ok, data |-> data, before |-> before]

\* The RingBuffer as constructed, no call made.
RingConstructed ==
    /\ ring = NewRing(RING_SIZE)
    /\ ringAccepted = <<>>
    /\ ringOut = <<>>
    /\ ringLast = RingCall("-", <<>>, FALSE, NUL, NewRing(RING_SIZE))

\* What the application does in one run with AsyncSerial.
AsyncScenarios ==
    { [writes |-> MaxTxWrites, reads |-> MaxRxReads, flushes |-> MaxFlushes] }

NoAsyncBudget == [writes |-> 0, reads |-> 0, flushes |-> 0]
NoBudget == [messages |-> 0, events |-> 0, writes |-> 0, reads |-> 0]

\* AsyncSerial and the proxy objects as constructed, nothing on the line.
AsyncConstructed ==
    /\ state = "IDLE"
    /\ proxies = <<>>
    /\ flushOwner = 0
    /\ rxBuffer = [id \in ProxyIds |-> NewRingBuffer]
    /\ txBuffer = [id \in ProxyIds |->
                      [NewRingBuffer EXCEPT
                          !.buffer = [i \in DOMAIN @ |-> [from |-> 0, b |-> NUL]]]]
    /\ flushPc = "none"
    /\ flushResult = "none"
    /\ crashed = FALSE
    /\ lineIn = <<>>
    /\ lineOut = <<>>
    /\ lineRead = <<>>
    /\ pushed = [id \in ProxyIds |-> <<>>]
    /\ regAt = [id \in ProxyIds |-> 0]
    /\ rxRead = [id \in ProxyIds |-> <<>>]
    /\ arrivals = 0
    /\ flushClock = 0
    /\ regResult = "none"
    /\ sinceSent = [id \in ProxyIds |-> INTER_MESSAGE_DELAY]

\* The endpoint as constructed, nothing on the line.
EndpointConstructed ==
    /\ mode = "NONE"
    /\ apiBuffer = <<>>
    /\ apiBufferOverflow = FALSE
    /\ currentCommand = NewPendingCommand
    /\ eventQueue = <<>>
    /\ sinceTxRx = 0
    /\ proxy = NewProxy
    /\ serialIn = <<>>
    /\ wire = <<>>
    /\ inbox = <<>>
    /\ received = <<>>
    /\ handled = <<>>
    /\ execLog = <<>>
    /\ appRead = <<>>
    /\ pushedInFlight = FALSE
    /\ last = NoPoll

\* The endpoint at work, AsyncSerial left alone.
Init ==
    /\ EndpointConstructed
    /\ budget \in Scenarios
    /\ AsyncConstructed
    /\ lineInbox = <<>>
    /\ abudget = NoAsyncBudget
    /\ RingConstructed
    /\ formatterCall = NoFormatterCall
    /\ commandCall = NoCommandCall

\* ------------------------------------------------------------------------
\* The environment: client, application
\* ------------------------------------------------------------------------

NL == <<"\n">>

RECURSIVE Repeat(_, _)
Repeat(ch, n) == IF n <= 0 THEN <<>> ELSE <<ch>> \o Repeat(ch, n - 1)

L_GetStatus  == <<">"," ","G","E","T"," ","w","i","f","i","/","s","t","a","t","u","s">>
L_SetSecBad  == <<">"," ","S","E","T"," ","s","e","c",":"," ","a","u","t","h",".","p","a","s","s","w","o","r","d","=","n","o">>
L_SetSecNone == <<">"," ","S","E","T"," ","s","e","c">>
L_Invalid    == <<">"," ","F","O","O"," ","x">>
L_GetUnknown == <<">"," ","G","E","T"," ","x">>
L_SetCfgNone == <<">"," ","S","E","T"," ","c","f","g">>

\* A command that never ends and does not fit the command buffer.
L_Overlong == <<">">> \o Repeat("x", API_BUFFER_SIZE)

\* Pass-through traffic: its first byte is not the sigil.
L_Raw == <<"r",">">>

\* What the client may send as one message.
Messages ==
    { L_GetStatus \o NL, L_SetSecBad \o NL, L_SetSecNone \o NL, L_Invalid \o NL,
      L_GetUnknown \o NL, L_SetCfgNone \o NL, L_Overlong, L_Raw }

\* Events the application may push: [name, data].  The data carries a
\* number that tells the events of a run apart.
Events ==
    { [name |-> <<"e">>, data |-> JObj(<<KV(<<"k">>, JInt(n))>>)] : n \in 1..MaxEvents }

\* Bytes the application writes through the proxy.
AppBytes == {"p"}

\* Where the client may cut a message in two: not at all, or for the status
\* command before its last byte, the newline.
SplitPoints(m) == IF m = L_GetStatus \o NL THEN {Len(m) - 1, Len(m)} ELSE {Len(m)}

\* The client starts a message: its first k bytes reach the line at once.
ClientSend(m, k) ==
    /\ budget.messages > 0
    /\ inbox = <<>>
    /\ budget' = [budget EXCEPT !.messages = @ - 1]
    /\ serialIn' = serialIn \o SubSeq(m, 1, k)
    /\ inbox' = SubSeq(m, k + 1, Len(m))
    /\ last' = NoPoll
    /\ UNCHANGED <<mode, apiBuffer, apiBufferOverflow, currentCommand, eventQueue,
                   sinceTxRx, proxy, wire, received, handled, execLog, appRead,
                   pushedInFlight>>
    /\ UNCHANGED <<avars, fvars, rvars, pvars>>

\* The rest of the current message reaches the line.
ClientDeliver ==
    /\ inbox # <<>>
    /\ serialIn' = serialIn \o inbox
    /\ inbox' = <<>>
    /\ last' = NoPoll
    /\ UNCHANGED <<mode, apiBuffer, apiBufferOverflow, currentCommand, eventQueue,
                   sinceTxRx, proxy, wire, budget, received, handled, execLog, appRead,
                   pushedInFlight>>
    /\ UNCHANGED <<avars, fvars, rvars, pvars>>

pushEvent_DropNewest(queue, event, data) ==
    LET q == IF Len(queue) >= QUEUE_SIZE THEN SubSeq(queue, 1, Len(queue) - 1) ELSE queue
    IN  Append(q, formatEvent(event, data))

\* SerialAPIEndpoint::pushEvent
pushEvent(queue, event, data) ==
    LET q == IF Len(queue) >= QUEUE_SIZE THEN Tail(queue) ELSE queue
    IN  Append(q, formatEvent(event, data))

\* A command is in flight: it is being framed or processed, or the
\* PendingCommand holds a command whose response is not yet sent in full.
CommandInFlight ==
    \/ mode \in {"API_RECEIVE", "API_PROCESS"}
    \/ /\ currentCommand.command # <<>>
       /\ currentCommand.sendIndex < Len(currentCommand.response)

\* The application pushes an event; the events of a run count down.
PushEvent(e) ==
    /\ budget.events > 0
    /\ e.data = JObj(<<KV(<<"k">>, JInt(budget.events))>>)
    /\ budget' = [budget EXCEPT !.events = @ - 1]
    /\ eventQueue' = pushEvent(eventQueue, e.name, e.data)
    /\ pushedInFlight' = (pushedInFlight \/ CommandInFlight)
    /\ last' = NoPoll
    /\ UNCHANGED <<mode, apiBuffer, apiBufferOverflow, currentCommand, sinceTxRx,
                   proxy, serialIn, wire, inbox, received, handled, execLog, appRead>>
    /\ UNCHANGED <<avars, fvars, rvars, pvars>>

\* The application calls proxy.begin().
AppBegin ==
    /\ ~proxy.initialized
    /\ proxy' = ProxyBegin(proxy)
    /\ last' = NoPoll
    /\ UNCHANGED <<mode, apiBuffer, apiBufferOverflow, currentCommand, eventQueue,
                   sinceTxRx, serialIn, wire, inbox, budget, received, handled,
                   execLog, appRead,
                   pushedInFlight>>
    /\ UNCHANGED <<avars, fvars, rvars, pvars>>

\* The application writes one byte with proxy.write().
AppWrite(b) ==
    /\ budget.writes > 0
    /\ budget' = [budget EXCEPT !.writes = @ - 1]
    /\ proxy' = ProxyWrite(proxy, b).proxy
    /\ last' = NoPoll
    /\ UNCHANGED <<mode, apiBuffer, apiBufferOverflow, currentCommand, eventQueue,
                   sinceTxRx, serialIn, wire, inbox, received, handled, execLog,
                   appRead, pushedInFlight>>
    /\ UNCHANGED <<avars, fvars, rvars, pvars>>

\* The application reads one byte with proxy.read().
AppRead ==
    /\ budget.reads > 0
    /\ ProxyAvailable(proxy) > 0
    /\ budget' = [budget EXCEPT !.reads = @ - 1]
    /\ proxy' = ProxyRead(proxy).proxy
    /\ appRead' = Append(appRead, ProxyRead(proxy).data)
    /\ last' = NoPoll
    /\ UNCHANGED <<mode, apiBuffer, apiBufferOverflow, currentCommand, eventQueue,
                   sinceTxRx, serialIn, wire, inbox, received, handled, execLog,
                   pushedInFlight>>
    /\ UNCHANGED <<avars, fvars, rvars, pvars>>


\* ------------------------------------------------------------------------
\* SerialAPIEndpoint::processStateMachine
\* ------------------------------------------------------------------------

\* The time between two polls of the host loop, in milliseconds.
PollDelays == {0, MODE_RESET_DELAY + 1}

\* now - _lastTxRx for a poll d milliseconds after the previous one; the
\* code only compares it with MODE_RESET_DELAY, so it saturates above it.
Elapsed(d) == Min(sinceTxRx + d, MODE_RESET_DELAY + 1)

TimedOut_NoGrace(el) == el >= 0

\* The test of the mode reset block.
TimedOut(el) == el > MODE_RESET_DELAY

\* The PendingCommand after a completed transmission is left for NONE.
CompletionReset(m, cmd) == IF m = "EVENT" THEN NewPendingCommand ELSE cmd

\* The mode reset block: mode, PendingCommand, buffer index (as the buffer
\* prefix) and overflow flag after it.
AfterTimeout(el) ==
    LET same == [mode |-> mode, cmd |-> currentCommand,
                 buf |-> apiBuffer, ovf |-> apiBufferOverflow]
    IN  IF ~TimedOut(el) THEN same
        ELSE CASE mode = "API_RECEIVE" ->
                    [mode |-> IF apiBufferOverflow \/ apiBufferIndex > 0
                              THEN "API_RESPOND" ELSE "NONE",
                     cmd  |-> IF apiBufferOverflow
                              THEN [currentCommand EXCEPT !.response = R_CommandTooLong]
                              ELSE IF apiBufferIndex > 0
                              THEN [currentCommand EXCEPT !.response = R_CommandTimeout]
                              ELSE currentCommand,
                     buf  |-> <<>>,
                     ovf  |-> FALSE]
               [] mode \in {"PROXY_RECEIVE", "PROXY_SEND"} ->
                    [same EXCEPT !.mode = "NONE"]
               [] mode \in {"API_RESPOND", "EVENT"} ->
                    IF currentCommand.sendIndex >= Len(currentCommand.response)
                    THEN [same EXCEPT !.mode = "NONE",
                                      !.cmd = CompletionReset(mode, currentCommand)]
                    ELSE same
               [] OTHER -> same

\* The test of case NONE that lets an event start.
EventReady(queue, cmd) ==
    /\ queue # <<>>
    /\ cmd.command = <<>>
    /\ cmd.response = <<>>
    /\ cmd.sendIndex = 0

FrameMode_SigilSwapped(c) == IF c = ">" THEN "PROXY_RECEIVE" ELSE "API_RECEIVE"

\* The framing rule of case NONE: the mode the first byte selects.
FrameMode(c) == IF c = ">" THEN "API_RECEIVE" ELSE "PROXY_RECEIVE"

\* case NONE
PollNone(d) ==
    LET el == Elapsed(d)
        t  == AfterTimeout(el)
        c  == Head(serialIn)
        w  == WriteToInput(proxy, c)
    IN  /\ t.mode = "NONE"
        /\ currentCommand' = t.cmd
        /\ apiBufferOverflow' = t.ovf
        /\ IF EventReady(eventQueue, t.cmd)
           THEN /\ mode' = "EVENT"
                /\ apiBuffer' = t.buf
                /\ sinceTxRx' = el
                /\ last' = PollDid("NONE", <<>>, <<>>, 0)
                /\ UNCHANGED <<serialIn, proxy>>
           ELSE IF serialIn # <<>>
           THEN /\ serialIn' = Tail(serialIn)
                /\ sinceTxRx' = 0
                /\ mode' = FrameMode(c)
                /\ IF FrameMode(c) = "API_RECEIVE"
                   THEN /\ apiBuffer' = <<c>>
                        /\ proxy' = proxy
                        /\ last' = PollDid("NONE", <<c>>, <<>>, 0)
                   ELSE /\ apiBuffer' = t.buf
                        /\ proxy' = w.proxy
                        /\ last' = PollDid("NONE", <<c>>, <<[b |-> c, n |-> w.n]>>, 0)
           ELSE IF AvailableForWrite(proxy) # 0
           THEN /\ mode' = "PROXY_SEND"
                /\ sinceTxRx' = 0
                /\ apiBuffer' = t.buf
                /\ last' = PollDid("NONE", <<>>, <<>>, 0)
                /\ UNCHANGED <<serialIn, proxy>>
           ELSE /\ mode' = "NONE"
                /\ sinceTxRx' = el
                /\ apiBuffer' = t.buf
                /\ last' = PollDid("NONE", <<>>, <<>>, 0)
                /\ UNCHANGED <<serialIn, proxy>>
        /\ UNCHANGED <<eventQueue, wire, inbox, budget, received, handled,
                       execLog, appRead,
                   pushedInFlight>>
        /\ UNCHANGED <<avars, fvars, rvars, pvars>>

\* The loop of case PROXY_RECEIVE over the bytes it reads: the proxy after
\* the writeToInput calls and the result of each call.
RECURSIVE PushAll(_, _, _)
PushAll(p, bytes, px) ==
    IF bytes = <<>> THEN [proxy |-> p, px |-> px]
    ELSE LET w == WriteToInput(p, Head(bytes))
         IN  PushAll(w.proxy, Tail(bytes), Append(px, [b |-> Head(bytes), n |-> w.n]))

\* case PROXY_RECEIVE
PollProxyReceive(d) ==
    LET el == Elapsed(d)
        t  == AfterTimeout(el)
        n  == Min(Len(serialIn), RX_CHUNK_SIZE)
        rd == SubSeq(serialIn, 1, n)
        r  == PushAll(proxy, rd, <<>>)
    IN  /\ t.mode = "PROXY_RECEIVE"
        /\ mode' = t.mode
        /\ currentCommand' = t.cmd
        /\ apiBuffer' = t.buf
        /\ apiBufferOverflow' = t.ovf
        /\ serialIn' = SubSeq(serialIn, n + 1, Len(serialIn))
        /\ proxy' = r.proxy
        /\ sinceTxRx' = IF n > 0 THEN 0 ELSE el
        /\ last' = PollDid("PROXY_RECEIVE", rd, r.px, 0)
        /\ UNCHANGED <<eventQueue, wire, inbox, budget, received, handled,
                       execLog, appRead,
                   pushedInFlight>>
        /\ UNCHANGED <<avars, fvars, rvars, pvars>>

\* The loop of case PROXY_SEND: the proxy after up to TX_CHUNK_SIZE
\* readOutput calls and the bytes written to the line.
RECURSIVE DrainOutput(_, _)
DrainOutput(p, bytes) ==
    IF AvailableForWrite(p) # 0 /\ Len(bytes) < TX_CHUNK_SIZE
    THEN LET r == ReadOutput(p)
         IN  IF r.data = NoByte THEN [proxy |-> p, bytes |-> bytes]
             ELSE DrainOutput(r.proxy, Append(bytes, r.data))
    ELSE [proxy |-> p, bytes |-> bytes]

\* One run of consecutive _serial.write calls: where the bytes come from
\* ("proxy", "api", "evt", "log"), the bytes, and for a response the send
\* index they start at and the length of the response.
Burst(src, bytes, from, of) == [src |-> src, bytes |-> bytes, from |-> from, of |-> of]

\* case PROXY_SEND
PollProxySend(d) ==
    LET el == Elapsed(d)
        t  == AfterTimeout(el)
        r  == DrainOutput(proxy, <<>>)
    IN  /\ t.mode = "PROXY_SEND"
        /\ mode' = t.mode
        /\ currentCommand' = t.cmd
        /\ apiBuffer' = t.buf
        /\ apiBufferOverflow' = t.ovf
        /\ IF AvailableForWrite(proxy) # 0
           THEN /\ proxy' = r.proxy
                /\ wire' = Append(wire, Burst("proxy", r.bytes, 0, 0))
                /\ sinceTxRx' = 0
                /\ last' = PollDid("PROXY_SEND", <<>>, <<>>, Len(r.bytes))
           ELSE /\ sinceTxRx' = el
                /\ last' = PollDid("PROXY_SEND", <<>>, <<>>, 0)
                /\ UNCHANGED <<proxy, wire>>
        /\ UNCHANGED <<eventQueue, serialIn, inbox, budget, received, handled,
                       execLog, appRead,
                   pushedInFlight>>
        /\ UNCHANGED <<avars, fvars, rvars, pvars>>

RECURSIVE ApiReceiveLoop_DrainsLine(_, _, _, _)
ApiReceiveLoop_DrainsLine(in, n, buf, ovf) ==
    IF in = <<>> \/ n >= RX_CHUNK_SIZE
    THEN [in |-> in, n |-> n, buf |-> buf, ovf |-> ovf, complete |-> FALSE]
    ELSE LET c == Head(in)
         IN  IF ovf THEN ApiReceiveLoop_DrainsLine(Tail(in), n + 1, buf, ovf)
             ELSE IF Len(buf) < API_BUFFER_SIZE - 1
             THEN IF c = "\n"
                  THEN [in |-> <<>>, n |-> n + 1, buf |-> buf, ovf |-> ovf,
                        complete |-> TRUE]
                  ELSE ApiReceiveLoop_DrainsLine(Tail(in), n + 1, Append(buf, c), ovf)
             ELSE ApiReceiveLoop_DrainsLine(Tail(in), n + 1, buf, TRUE)

RECURSIVE ApiReceiveLoop_FillsLastSlot(_, _, _, _)
ApiReceiveLoop_FillsLastSlot(in, n, buf, ovf) ==
    IF in = <<>> \/ n >= RX_CHUNK_SIZE
    THEN [in |-> in, n |-> n, buf |-> buf, ovf |-> ovf, complete |-> FALSE]
    ELSE LET c == Head(in)
         IN  IF ovf THEN ApiReceiveLoop_FillsLastSlot(Tail(in), n + 1, buf, ovf)
             ELSE IF Len(buf) < API_BUFFER_SIZE
             THEN IF c = "\n"
                  THEN [in |-> Tail(in), n |-> n + 1, buf |-> buf, ovf |-> ovf,
                        complete |-> TRUE]
                  ELSE ApiReceiveLoop_FillsLastSlot(Tail(in), n + 1, Append(buf, c), ovf)
             ELSE ApiReceiveLoop_FillsLastSlot(Tail(in), n + 1, buf, TRUE)

\* The loop of case API_RECEIVE over the pending input: what is left on the
\* line, the buffer prefix, the overflow flag, the number of bytes read and
\* whether a newline completed the command.
RECURSIVE ApiReceiveLoop(_, _, _, _)
ApiReceiveLoop(in, n, buf, ovf) ==
    IF in = <<>> \/ n >= RX_CHUNK_SIZE
    THEN [in |-> in, n |-> n, buf |-> buf, ovf |-> ovf, complete |-> FALSE]
    ELSE LET c == Head(in)
         IN  IF ovf THEN ApiReceiveLoop(Tail(in), n + 1, buf, ovf)
             ELSE IF Len(buf) < API_BUFFER_SIZE - 1
             THEN IF c = "\n"
                  THEN [in |-> Tail(in), n |-> n + 1, buf |-> buf, ovf |-> ovf,
                        complete |-> TRUE]
                  ELSE ApiReceiveLoop(Tail(in), n + 1, Append(buf, c), ovf)
             ELSE ApiReceiveLoop(Tail(in), n + 1, buf, TRUE)

\* case API_RECEIVE
PollApiReceive(d) ==
    LET el == Elapsed(d)
        t  == AfterTimeout(el)
        r  == ApiReceiveLoop(serialIn, 0, t.buf, t.ovf)
    IN  /\ t.mode = "API_RECEIVE"
        /\ serialIn' = r.in
        /\ apiBuffer' = r.buf
        /\ apiBufferOverflow' = r.ovf
        /\ sinceTxRx' = IF r.n > 0 THEN 0 ELSE el
        /\ last' = PollDid("API_RECEIVE", SubSeq(serialIn, 1, r.n), <<>>, 0)
        /\ IF r.complete
           THEN /\ currentCommand' = [t.cmd EXCEPT !.command = r.buf]
                /\ mode' = "API_PROCESS"
                /\ received' = Append(received, r.buf)
           ELSE /\ currentCommand' = t.cmd
                /\ mode' = t.mode
                /\ received' = received
        /\ UNCHANGED <<eventQueue, proxy, wire, inbox, budget, handled, execLog,
                       appRead, pushedInFlight>>
        /\ UNCHANGED <<avars, fvars, rvars, pvars>>

\* The line APIServer::getAPIDoc prints on Serial (accents left out).
S_DocLog ==
    <<"A","P","I","S","E","R","V","E","R",":"," ","D","o","c","u","m","e","n","t","a","t","i","o","n"," ","g","e","n","e","r","e","e"," ","p","o","u","r"," ">>
    \o IntToString(Cardinality(DOMAIN Methods))
    \o <<" ","m","e","t","h","o","d","e","s","\n">>

ModeAfterProcess_Event == "EVENT"

\* The mode case API_PROCESS leaves the endpoint in.
ModeAfterProcess == "API_RESPOND"

\* case API_PROCESS
PollApiProcess(d) ==
    LET el == Elapsed(d)
        t  == AfterTimeout(el)
        h  == handleCommand(t.cmd.command)
    IN  /\ t.mode = "API_PROCESS"
        /\ mode' = ModeAfterProcess
        /\ apiBuffer' = t.buf
        /\ apiBufferOverflow' = t.ovf
        /\ IF ~t.cmd.processed
           THEN /\ currentCommand' = [t.cmd EXCEPT !.response = h.response,
                                                   !.processed = TRUE]
                /\ handled' = Append(handled, t.cmd.command)
                /\ execLog' = execLog \o h.calls.exec
                /\ wire' = IF h.calls.getAPIDoc
                           THEN Append(wire, Burst("log", S_DocLog, 0, 0))
                           ELSE wire
                /\ sinceTxRx' = 0
                /\ last' = PollDid("API_PROCESS", <<>>, <<>>,
                                   IF h.calls.getAPIDoc THEN Len(S_DocLog) ELSE 0)
           ELSE /\ currentCommand' = t.cmd
                /\ sinceTxRx' = el
                /\ last' = PollDid("API_PROCESS", <<>>, <<>>, 0)
                /\ UNCHANGED <<handled, execLog, wire>>
        /\ UNCHANGED <<eventQueue, proxy, serialIn, inbox, budget, received, appRead,
                   pushedInFlight>>
        /\ UNCHANGED <<avars, fvars, rvars, pvars>>

\* The send loop of cases API_RESPOND and EVENT: the send index after it.
RECURSIVE TxLoop(_, _, _)
TxLoop(response, sendIndex, sentChunks) ==
    IF sendIndex < Len(response) /\ (MAX_TX_CHUNKS = 0 \/ sentChunks < MAX_TX_CHUNKS)
    THEN TxLoop(response,
                sendIndex + Min(TX_CHUNK_SIZE, Len(response) - sendIndex),
                sentChunks + 1)
    ELSE sendIndex

PollRespond_OneChunkThenNone(d) ==
    LET el  == Elapsed(d)
        t   == AfterTimeout(el)
        idx == Min(Len(t.cmd.response), t.cmd.sendIndex + TX_CHUNK_SIZE)
    IN  /\ t.mode \in {"API_RESPOND", "EVENT"}
        /\ mode' = "NONE"
        /\ apiBuffer' = t.buf
        /\ apiBufferOverflow' = t.ovf
        /\ IF t.cmd.sendIndex < Len(t.cmd.response)
           THEN /\ currentCommand' = [t.cmd EXCEPT !.sendIndex = idx]
                /\ wire' = Append(wire,
                                  Burst(IF t.mode = "EVENT" THEN "evt" ELSE "api",
                                        SubSeq(t.cmd.response, t.cmd.sendIndex + 1, idx),
                                        t.cmd.sendIndex, Len(t.cmd.response)))
                /\ sinceTxRx' = 0
                /\ last' = PollDid(t.mode, <<>>, <<>>, idx - t.cmd.sendIndex)
           ELSE /\ currentCommand' = t.cmd
                /\ sinceTxRx' = el
                /\ last' = PollDid(t.mode, <<>>, <<>>, 0)
                /\ UNCHANGED wire
        /\ UNCHANGED <<eventQueue, proxy, serialIn, inbox, budget, received,
                       handled, execLog, appRead, pushedInFlight>>
        /\ UNCHANGED <<avars, fvars, rvars, pvars>>

\* cases API_RESPOND and EVENT
PollRespond(d) ==
    LET el  == Elapsed(d)
        t   == AfterTimeout(el)
        idx == TxLoop(t.cmd.response, t.cmd.sendIndex, 0)
    IN  /\ t.mode \in {"API_RESPOND", "EVENT"}
        /\ mode' = t.mode
        /\ apiBuffer' = t.buf
        /\ apiBufferOverflow' = t.ovf
        /\ IF t.cmd.sendIndex < Len(t.cmd.response)
           THEN /\ currentCommand' = [t.cmd EXCEPT !.sendIndex = idx]
                /\ wire' = Append(wire,
                                  Burst(IF t.mode = "EVENT" THEN "evt" ELSE "api",
                                        SubSeq(t.cmd.response, t.cmd.sendIndex + 1, idx),
                                        t.cmd.sendIndex, Len(t.cmd.response)))
                /\ sinceTxRx' = 0
                /\ last' = PollDid(t.mode, <<>>, <<>>, idx - t.cmd.sendIndex)
           ELSE /\ currentCommand' = t.cmd
                /\ sinceTxRx' = el
                /\ last' = PollDid(t.mode, <<>>, <<>>, 0)
                /\ UNCHANGED wire
        /\ UNCHANGED <<eventQueue, proxy, serialIn, inbox, budget, received,
                       handled, execLog, appRead,
                   pushedInFlight>>
        /\ UNCHANGED <<avars, fvars, rvars, pvars>>

\* SerialAPIEndpoint::poll
Poll ==
    \E d \in PollDelays :
        \/ PollNone(d)
        \/ PollProxyReceive(d)
        \/ PollProxySend(d)
        \/ PollApiReceive(d)
        \/ PollApiProcess(d)
        \/ PollRespond(d)

Next ==
    \/ Poll
    \/ \E m \in Messages : \E k \in SplitPoints(m) : ClientSend(m, k)
    \/ ClientDeliver
    \/ \E e \in Events : PushEvent(e)
    \/ AppBegin
    \/ \E b \in AppBytes : AppWrite(b)
    \/ AppRead

Spec == Init /\ [][Next]_vars


\* ------------------------------------------------------------------------
\* AsyncSerial: registerProxy, poll, flush, and the owners of the proxies
\* ------------------------------------------------------------------------

\* The proxy objects registered so far.
Registered == {proxies[i].proxy : i \in DOMAIN proxies}

\* SerialProxy::txAvailable
txAvailable(id) == RbAvailable(txBuffer[id])

\* A chunk of the inbound stream reaches the line: its next k bytes.
LineArrive(k) ==
    /\ k \in 1..Len(lineInbox)
    /\ lineIn' = lineIn \o SubSeq(lineInbox, 1, k)
    /\ lineInbox' = SubSeq(lineInbox, k + 1, Len(lineInbox))
    /\ arrivals' = arrivals + 1
    /\ UNCHANGED <<state, proxies, flushOwner, rxBuffer, txBuffer, flushPc,
                   flushResult, crashed, lineOut, lineRead, pushed, regAt, rxRead,
                   abudget>>
    /\ UNCHANGED <<evars, fvars, rvars, pvars>>

\* The application runs between two calls: no flush call is under way.
AppRuns == flushPc = "none" /\ ~crashed

\* The ProxyState {proxy, 0, false} of a registration; lastTxTime = 0 lies
\* more than the inter-message delay in the past.
NewProxyState(id) ==
    [proxy |-> id, sinceTx |-> INTER_MESSAGE_DELAY, isActive |-> FALSE]

registerProxy_OffByOne(ps, id) ==
    IF Len(ps) > MAX_PROXIES THEN [ok |-> FALSE, proxies |-> ps]
    ELSE [ok |-> TRUE, proxies |-> Append(ps, NewProxyState(id))]

\* AsyncSerial::registerProxy on the registry ps: [ok, proxies]
registerProxy(ps, id) ==
    IF Len(ps) >= MAX_PROXIES THEN [ok |-> FALSE, proxies |-> ps]
    ELSE [ok |-> TRUE, proxies |-> Append(ps, NewProxyState(id))]

\* The application calls AsyncSerial::registerProxy.
RegisterProxy(id) ==
    /\ AppRuns
    /\ proxies' = registerProxy(proxies, id).proxies
    /\ regResult' = IF registerProxy(proxies, id).ok THEN "true" ELSE "false"
    /\ regAt' = IF registerProxy(proxies, id).ok
                THEN [regAt EXCEPT ![id] = Len(lineRead)]
                ELSE regAt
    /\ UNCHANGED <<state, flushOwner, rxBuffer, txBuffer, flushPc, flushResult,
                   crashed, lineIn, lineInbox, lineOut, lineRead, pushed, rxRead,
                   arrivals, abudget>>
    /\ UNCHANGED <<evars, flushClock, sinceSent, rvars, pvars>>

\* SerialProxy::write(uint8_t) by the owner of the proxy.
TxWrite(id, b) ==
    /\ AppRuns
    /\ abudget.writes > 0
    /\ abudget' = [abudget EXCEPT !.writes = @ - 1]
    /\ txBuffer' = [txBuffer EXCEPT ![id] = RbWrite(@, [from |-> id, b |-> b]).rb]
    /\ UNCHANGED <<state, proxies, flushOwner, rxBuffer, flushPc, flushResult,
                   crashed, lineIn, lineInbox, lineOut, lineRead, pushed, regAt,
                   rxRead, arrivals>>
    /\ UNCHANGED <<evars, fvars, rvars, pvars>>

\* SerialProxy::read() by the owner of the proxy, with a byte available.
RxRead(id) ==
    /\ AppRuns
    /\ abudget.reads > 0
    /\ RbAvailable(rxBuffer[id]) > 0
    /\ abudget' = [abudget EXCEPT !.reads = @ - 1]
    /\ rxBuffer' = [rxBuffer EXCEPT ![id] = RbRead(@).rb]
    /\ rxRead' = [rxRead EXCEPT ![id] = Append(@, RbRead(rxBuffer[id]).data)]
    /\ UNCHANGED <<state, proxies, flushOwner, txBuffer, flushPc, flushResult,
                   crashed, lineIn, lineInbox, lineOut, lineRead, pushed, regAt,
                   arrivals>>
    /\ UNCHANGED <<evars, fvars, rvars, pvars>>

\* The time between two polls, in milliseconds.
AsyncPollDelays == {0, INTER_MESSAGE_DELAY}

\* millis() - lastTxTime of every registered proxy d milliseconds later; the
\* code only compares it with the delay, so it saturates there.
Later(ps, d) ==
    [i \in DOMAIN ps |-> [ps[i] EXCEPT !.sinceTx = Min(@ + d, INTER_MESSAGE_DELAY)]]

\* The time since the bytes of every proxy were last written to the line,
\* d milliseconds later.
SentLater(d) ==
    [id \in ProxyIds |-> Min(sinceSent[id] + d, INTER_MESSAGE_DELAY)]

\* Who calls poll(): the loop of the application, or a flush call waiting
\* for READ or WRITE to end, or a flush call in its FLUSH loop.
PollCalled ==
    /\ ~crashed
    /\ \/ flushPc = "none"
       \/ flushPc = "waiting" /\ state \in {"READ", "WRITE"}
       \/ flushPc = "flushing" /\ state = "FLUSH"

\* Where the caller stands when poll() returns: the FLUSH loop of flush
\* checks its timeout next.
PcAfterPoll == IF flushPc = "flushing" THEN "check" ELSE flushPc

\* flushClock after a poll that the waiting loop of flush or the loop of
\* the application called, d milliseconds after the previous one: while a
\* flush call waits, SERIAL_TIMEOUT since the call may have passed by now.
ClockAfterPoll(d) ==
    IF flushPc = "waiting" /\ d > 0 THEN {flushClock, 1} ELSE {flushClock}

\* flushClock after a poll of case FLUSH: its loop ends with the buffer
\* empty, at any time, or with SERIAL_TIMEOUT passed since the poll began,
\* which is later than startTime of flush.
ClockAfterFlushPoll(drained) ==
    IF flushPc # "flushing" THEN {flushClock}
    ELSE IF drained THEN flushClock..2 ELSE {2}

AsyncPollIdle_ActivatesAll(d) ==
    LET ps     == Later(proxies, d)
        ready  == {i \in DOMAIN ps : txAvailable(ps[i].proxy) > 0}
        first  == CHOOSE i \in ready : \A j \in ready : i <= j
    IN  /\ PollCalled
        /\ state = "IDLE"
        /\ flushPc' = PcAfterPoll
        /\ IF lineIn # <<>>
           THEN /\ state' = "READ"
                /\ proxies' = ps
           ELSE IF ready # {}
           THEN /\ state' = "WRITE"
                /\ proxies' = [i \in DOMAIN ps |->
                                  [ps[i] EXCEPT !.isActive = i \in ready]]
           ELSE /\ state' = "IDLE"
                /\ proxies' = ps
        /\ flushClock' \in ClockAfterPoll(d)
        /\ sinceSent' = SentLater(d)
        /\ UNCHANGED <<flushOwner, rxBuffer, txBuffer, flushResult, crashed, lineIn,
                       lineInbox, lineOut, lineRead, pushed, regAt, rxRead, arrivals,
                       abudget>>
        /\ UNCHANGED <<evars, regResult, rvars, pvars>>

\* case State::IDLE
AsyncPollIdle(d) ==
    LET ps     == Later(proxies, d)
        ready  == {i \in DOMAIN ps : txAvailable(ps[i].proxy) > 0}
        first  == CHOOSE i \in ready : \A j \in ready : i <= j
    IN  /\ PollCalled
        /\ state = "IDLE"
        /\ flushPc' = PcAfterPoll
        /\ IF lineIn # <<>>
           THEN /\ state' = "READ"
                /\ proxies' = ps
           ELSE IF ready # {}
           THEN /\ state' = "WRITE"
                /\ proxies' = [ps EXCEPT ![first].isActive = TRUE]
           ELSE /\ state' = "IDLE"
                /\ proxies' = ps
        /\ flushClock' \in ClockAfterPoll(d)
        /\ sinceSent' = SentLater(d)
        /\ UNCHANGED <<flushOwner, rxBuffer, txBuffer, flushResult, crashed, lineIn,
                       lineInbox, lineOut, lineRead, pushed, regAt, rxRead, arrivals,
                       abudget>>
        /\ UNCHANGED <<evars, regResult, rvars, pvars>>

\* The pushToRx calls of one proxy for the bytes of one READ cycle: the
\* buffer after them and the calls with their results.
RECURSIVE PushToRxAll(_, _, _)
PushToRxAll(rb, bytes, calls) ==
    IF bytes = <<>> THEN [rb |-> rb, calls |-> calls]
    ELSE LET w == RbWrite(rb, Head(bytes))
         IN  PushToRxAll(w.rb, Tail(bytes),
                         Append(calls, [b |-> Head(bytes), ok |-> w.ok]))

BroadcastTargets_AllButLast(ps) == {ps[i].proxy : i \in (DOMAIN ps) \ {Len(ps)}}

\* The proxies the loop of case READ pushes every byte to.
BroadcastTargets(ps) == {ps[i].proxy : i \in DOMAIN ps}

\* case State::READ
AsyncPollRead(d) ==
    LET n  == Min(Len(lineIn), ASYNC_RX_CHUNK_SIZE)
        rd == SubSeq(lineIn, 1, n)
        to == BroadcastTargets(proxies)
    IN  /\ PollCalled
        /\ state = "READ"
        /\ flushPc' = PcAfterPoll
        /\ proxies' = Later(proxies, d)
        /\ lineIn' = SubSeq(lineIn, n + 1, Len(lineIn))
        /\ lineRead' = lineRead \o rd
        /\ rxBuffer' = [id \in ProxyIds |->
                          IF id \in to THEN PushToRxAll(rxBuffer[id], rd, <<>>).rb
                          ELSE rxBuffer[id]]
        /\ pushed' = [id \in ProxyIds |->
                          IF id \in to
                          THEN pushed[id] \o PushToRxAll(rxBuffer[id], rd, <<>>).calls
                          ELSE pushed[id]]
        /\ state' = IF lineIn' # <<>> THEN "READ" ELSE "IDLE"
        /\ flushClock' \in ClockAfterPoll(d)
        /\ sinceSent' = SentLater(d)
        /\ UNCHANGED <<flushOwner, txBuffer, flushResult, crashed, lineInbox,
                       lineOut, regAt, rxRead, arrivals, abudget>>
        /\ UNCHANGED <<evars, regResult, rvars, pvars>>

\* The reads of sendChunk: the buffer after taking n items and the items.
RECURSIVE TakeFromTx(_, _, _)
TakeFromTx(rb, n, items) ==
    IF n = 0 \/ ~RbRead(rb).ok THEN [rb |-> rb, items |-> items]
    ELSE TakeFromTx(RbRead(rb).rb, n - 1, Append(items, RbRead(rb).data))

\* AsyncSerial::sendChunk with Serial.availableForWrite() = space.
sendChunk(id, space) ==
    IF space = 0 THEN [rb |-> txBuffer[id], items |-> <<>>]
    ELSE TakeFromTx(txBuffer[id], Min(space, txAvailable(id)), <<>>)

\* One Serial.write call: the case of poll that made it, the items, and the
\* time since bytes of the same proxy were last written to the line.
LineWrite(case, items, gap) == [case |-> case, items |-> items, gap |-> gap]

\* The loop of case WRITE without its break: every proxy with bytes waiting
\* sends a chunk in the same poll.
AsyncPollWrite_EveryReady(d, space) ==
    LET ps     == Later(proxies, d)
        ready  == {id \in Registered : txAvailable(id) > 0}
        order  == [k \in 1..Len(ps) |-> ps[k].proxy]
        chunks == SelectSeq(order, LAMBDA id : id \in ready /\ space > 0)
    IN  /\ PollCalled
        /\ state = "WRITE"
        /\ flushPc' = PcAfterPoll
        /\ proxies' = [k \in DOMAIN ps |-> [ps[k] EXCEPT !.isActive = FALSE]]
        /\ txBuffer' = [id \in ProxyIds |->
                          IF id \in ready THEN sendChunk(id, space).rb
                          ELSE txBuffer[id]]
        /\ lineOut' = lineOut \o
                      [k \in 1..Len(chunks) |->
                          LineWrite("WRITE", sendChunk(chunks[k], space).items,
                                    SentLater(d)[chunks[k]])]
        /\ state' = "IDLE"
        /\ flushClock' \in ClockAfterPoll(d)
        /\ sinceSent' = [o \in ProxyIds |->
                            IF o \in ready /\ space > 0 THEN 0 ELSE SentLater(d)[o]]
        /\ UNCHANGED <<flushOwner, rxBuffer, flushResult, crashed, lineIn, lineInbox,
                       lineRead, pushed, regAt, rxRead, arrivals, abudget>>
        /\ UNCHANGED <<evars, regResult, rvars, pvars>>

\* case State::WRITE
AsyncPollWrite(d, space) ==
    LET ps     == Later(proxies, d)
        active == {i \in DOMAIN ps : ps[i].isActive}
        i      == CHOOSE a \in active : \A j \in active : a <= j
        id     == ps[i].proxy
        c      == sendChunk(id, space)
    IN  /\ PollCalled
        /\ state = "WRITE"
        /\ flushPc' = PcAfterPoll
        /\ IF active = {} \/ ps[i].sinceTx < INTER_MESSAGE_DELAY
           THEN /\ proxies' = ps
                /\ sinceSent' = SentLater(d)
                /\ UNCHANGED <<state, txBuffer, lineOut>>
           ELSE /\ txBuffer' = [txBuffer EXCEPT ![id] = c.rb]
                /\ lineOut' = IF c.items # <<>>
                              THEN Append(lineOut, LineWrite("WRITE", c.items,
                                                             SentLater(d)[id]))
                              ELSE lineOut
                /\ sinceSent' = IF c.items # <<>>
                                THEN [SentLater(d) EXCEPT ![id] = 0]
                                ELSE SentLater(d)
                /\ IF RbAvailable(c.rb) = 0
                   THEN /\ proxies' = [ps EXCEPT ![i].sinceTx = 0, ![i].isActive = FALSE]
                        /\ state' = "IDLE"
                   ELSE /\ proxies' = [ps EXCEPT ![i].sinceTx = 0]
                        /\ state' = "WRITE"
        /\ flushClock' \in ClockAfterPoll(d)
        /\ UNCHANGED <<flushOwner, rxBuffer, flushResult, crashed, lineIn, lineInbox,
                       lineRead, pushed, regAt, rxRead, arrivals, abudget>>
        /\ UNCHANGED <<evars, regResult, rvars, pvars>>

FlushTarget_FirstWithData ==
    IF \E id \in Registered : txAvailable(id) > 0
    THEN CHOOSE id \in Registered :
            txAvailable(id) > 0 /\ \A o \in Registered : txAvailable(o) > 0 => id <= o
    ELSE flushOwner

\* case State::FLUSH: the proxy it drains, _flushLock.getOwner()
FlushTarget == flushOwner

\* case State::FLUSH, its end: IDLE if the owner's outbound buffer is empty.
StateAfterFlush(rb) == IF RbAvailable(rb) = 0 THEN "IDLE" ELSE "FLUSH"

\* case State::FLUSH: the loop sends chunks until the owner's outbound
\* buffer is empty or SERIAL_TIMEOUT has passed, which leaves n of its
\* items sent; without an owner the poll dereferences a null pointer.
AsyncPollFlush(d, n) ==
    LET c == TakeFromTx(txBuffer[FlushTarget], n, <<>>)
    IN  /\ PollCalled
        /\ state = "FLUSH"
        /\ flushPc' = PcAfterPoll
        /\ proxies' = Later(proxies, d)
        /\ IF flushOwner = 0
           THEN /\ crashed' = TRUE
                /\ UNCHANGED <<state, txBuffer, lineOut, flushClock, sinceSent>>
           ELSE /\ n \in 0..txAvailable(FlushTarget)
                /\ txBuffer' = [txBuffer EXCEPT ![FlushTarget] = c.rb]
                /\ lineOut' = IF c.items # <<>>
                              THEN Append(lineOut, LineWrite("FLUSH", c.items,
                                                             SentLater(d)[FlushTarget]))
                              ELSE lineOut
                /\ sinceSent' = IF c.items # <<>>
                                THEN [SentLater(d) EXCEPT ![FlushTarget] = 0]
                                ELSE SentLater(d)
                /\ state' = StateAfterFlush(c.rb)
                /\ flushClock' \in ClockAfterFlushPoll(RbAvailable(c.rb) = 0)
                /\ crashed' = crashed
        /\ UNCHANGED <<flushOwner, rxBuffer, flushResult, lineIn, lineInbox,
                       lineRead, pushed, regAt, rxRead, arrivals, abudget>>
        /\ UNCHANGED <<evars, regResult, rvars, pvars>>

\* AsyncSerial::flush(proxy), called by the application: the lock is free
\* and is taken at once.
FlushCall(id) ==
    /\ AppRuns
    /\ abudget.flushes > 0
    /\ flushOwner = 0
    /\ abudget' = [abudget EXCEPT !.flushes = @ - 1]
    /\ flushOwner' = id
    /\ flushPc' = "waiting"
    /\ flushClock' = 0
    /\ UNCHANGED <<state, proxies, rxBuffer, txBuffer, flushResult, crashed, lineIn,
                   lineInbox, lineOut, lineRead, pushed, regAt, rxRead, arrivals>>
    /\ UNCHANGED <<evars, regResult, sinceSent, rvars, pvars>>

\* flush: READ or WRITE has ended, the state becomes FLUSH.
FlushEnter ==
    /\ flushPc = "waiting"
    /\ state \notin {"READ", "WRITE"}
    /\ state' = "FLUSH"
    /\ flushPc' = "flushing"
    /\ UNCHANGED <<proxies, flushOwner, rxBuffer, txBuffer, flushResult, crashed,
                   lineIn, lineInbox, lineOut, lineRead, pushed, regAt, rxRead,
                   arrivals, abudget>>
    /\ UNCHANGED <<evars, fvars, rvars, pvars>>

\* flush: the timeout test after a poll of the FLUSH loop; on a timeout the
\* lock is released and flush returns false.
FlushCheck(late) ==
    /\ flushPc = "check"
    /\ late = (flushClock = 2)
    /\ IF late
       THEN /\ flushOwner' = 0
            /\ flushPc' = "none"
            /\ flushResult' = "false"
            /\ flushClock' = 0
       ELSE /\ flushPc' = "flushing"
            /\ UNCHANGED <<flushOwner, flushResult, flushClock>>
    /\ UNCHANGED <<state, proxies, rxBuffer, txBuffer, crashed, lineIn, lineInbox,
                   lineOut, lineRead, pushed, regAt, rxRead, arrivals, abudget>>
    /\ UNCHANGED <<evars, regResult, sinceSent, rvars, pvars>>

\* flush: the FLUSH loop has ended, the lock is released, flush returns true.
FlushReturn ==
    /\ flushPc = "flushing"
    /\ state # "FLUSH"
    /\ flushOwner' = 0
    /\ flushPc' = "none"
    /\ flushResult' = "true"
    /\ flushClock' = 0
    /\ UNCHANGED <<state, proxies, rxBuffer, txBuffer, crashed, lineIn, lineInbox,
                   lineOut, lineRead, pushed, regAt, rxRead, arrivals, abudget>>
    /\ UNCHANGED <<evars, regResult, sinceSent, rvars, pvars>>

\* AsyncSerial::poll
AsyncPoll ==
    \E d \in AsyncPollDelays :
        \/ AsyncPollIdle(d)
        \/ AsyncPollRead(d)
        \/ \E space \in 0..MaxSpace : AsyncPollWrite(d, space)
        \/ \E n \in 0..BUFFER_SIZE : AsyncPollFlush(d, n)

\* AsyncSerial at work, the endpoint left alone.
InitAsync ==
    /\ EndpointConstructed
    /\ budget = NoBudget
    /\ AsyncConstructed
    /\ lineInbox = Stream
    /\ abudget \in AsyncScenarios
    /\ RingConstructed
    /\ formatterCall = NoFormatterCall
    /\ commandCall = NoCommandCall

NextAsync ==
    \/ AsyncPoll
    \/ \E k \in 1..Len(Stream) : LineArrive(k)
    \/ \E id \in ProxyIds \ Registered : RegisterProxy(id)
    \/ \E id \in ProxyIds : \E b \in AppBytes : TxWrite(id, b)
    \/ \E id \in ProxyIds : RxRead(id)
    \/ \E id \in ProxyIds : FlushCall(id)
    \/ FlushEnter
    \/ \E late \in BOOLEAN : FlushCheck(late)
    \/ FlushReturn

SpecAsync == InitAsync /\ [][NextAsync]_vars

\* Every object as constructed, nothing on either line, no scenario chosen.
\* The registry of AsyncSerial on its own: the application registers proxy
\* objects, the same one any number of times, beyond the ceiling.
InitConstructed ==
    /\ EndpointConstructed
    /\ budget = NoBudget
    /\ AsyncConstructed
    /\ lineInbox = <<>>
    /\ abudget = NoAsyncBudget
    /\ RingConstructed
    /\ formatterCall = NoFormatterCall
    /\ commandCall = NoCommandCall

NextRegistry == \E id \in ProxyIds : RegisterProxy(id)

SpecRegistry == InitConstructed /\ [][NextRegistry]_vars


\* ------------------------------------------------------------------------
\* A RingBuffer on its own: the calls of its producer and its consumer
\* ------------------------------------------------------------------------

\* The items written, and the number of items the producer writes between
\* two clears.
RingItems == {"a", "b"}
MaxRingWrites == 5

\* The arrays a bulk write is called with: up to one item more than fits.
BulkArgs == UNION { [1..n -> RingItems] : n \in 0..(RING_SIZE + 1) }

\* ring.write(item)
RingWrite(item) ==
    LET w == RbWrite(ring, item)
    IN  /\ Len(ringAccepted) < MaxRingWrites
        /\ ring' = w.rb
        /\ ringAccepted' = IF w.ok THEN Append(ringAccepted, item) ELSE ringAccepted
        /\ ringLast' = RingCall("write", <<item>>, w.ok, NUL, ring)
        /\ UNCHANGED ringOut
        /\ UNCHANGED <<evars, avars, fvars, pvars>>

\* ring.write(data, length)
RingWriteBulk(data) ==
    LET w == RbWriteBulk(ring, data)
    IN  /\ Len(ringAccepted) + Len(data) <= MaxRingWrites
        /\ ring' = w.rb
        /\ ringAccepted' = IF w.ok THEN ringAccepted \o data ELSE ringAccepted
        /\ ringLast' = RingCall("bulk", data, w.ok, NUL, ring)
        /\ UNCHANGED ringOut
        /\ UNCHANGED <<evars, avars, fvars, pvars>>

\* ring.read(item)
RingRead ==
    LET r == RbRead(ring)
    IN  /\ ring' = r.rb
        /\ ringOut' = IF r.ok THEN Append(ringOut, r.data) ELSE ringOut
        /\ ringLast' = RingCall("read", <<>>, r.ok, r.data, ring)
        /\ UNCHANGED ringAccepted
        /\ UNCHANGED <<evars, avars, fvars, pvars>>

\* ring.peek(item)
RingPeek ==
    /\ ringLast' = RingCall("peek", <<>>, RbPeek(ring).ok, RbPeek(ring).data, ring)
    /\ UNCHANGED <<ring, ringAccepted, ringOut>>
    /\ UNCHANGED <<evars, avars, fvars, pvars>>

\* ring.clear(): the items written and not read are gone.
RingClear ==
    /\ ring' = RbClear(ring)
    /\ ringAccepted' = <<>>
    /\ ringOut' = <<>>
    /\ ringLast' = RingCall("clear", <<>>, TRUE, NUL, ring)
    /\ UNCHANGED <<evars, avars, fvars, pvars>>

NextRing ==
    \/ \E item \in RingItems : RingWrite(item)
    \/ \E data \in BulkArgs : RingWriteBulk(data)
    \/ RingRead
    \/ RingPeek
    \/ RingClear

SpecRing == InitConstructed /\ [][NextRing]_vars


\* ------------------------------------------------------------------------
\* AsyncSerial under an inbound stream that does not end
\* ------------------------------------------------------------------------

\* The sender puts one more byte on the line, which holds one byte more
\* than a READ cycle takes.  The record of the reads made so far is dropped
\* here, so that it stays bounded.
LineRefill ==
    /\ Len(lineIn) <= ASYNC_RX_CHUNK_SIZE
    /\ lineIn' = Append(lineIn, "a")
    /\ lineRead' = <<>>
    /\ pushed' = [id \in ProxyIds |-> <<>>]
    /\ regAt' = [id \in ProxyIds |-> 0]
    /\ UNCHANGED <<state, proxies, flushOwner, rxBuffer, txBuffer, flushPc,
                   flushResult, crashed, lineInbox, lineOut, rxRead, arrivals,
                   abudget>>
    /\ UNCHANGED <<evars, fvars, rvars, pvars>>

\* The owner of the proxy registered first writes one more byte to it, as
\* often as it likes.  The record of the writes made to the line so far is
\* dropped here, so that it stays bounded.
TxRefill(b) ==
    /\ AppRuns
    /\ proxies # <<>>
    /\ txBuffer' = [txBuffer EXCEPT ![proxies[1].proxy] =
                        RbWrite(@, [from |-> proxies[1].proxy, b |-> b]).rb]
    /\ lineOut' = <<>>
    /\ UNCHANGED <<state, proxies, flushOwner, rxBuffer, flushPc, flushResult,
                   crashed, lineIn, lineInbox, lineRead, pushed, regAt, rxRead,
                   arrivals, abudget>>
    /\ UNCHANGED <<evars, fvars, rvars, pvars>>

\* AsyncSerial::poll called by the loop of the application while no flush
\* call is made: d milliseconds after the previous poll, the line reporting
\* room for space bytes.
StreamPoll(d, space) ==
    \/ AsyncPollIdle(d)
    \/ AsyncPollRead(d)
    \/ AsyncPollWrite(d, space)

NextStream ==
    \/ \E d \in AsyncPollDelays : \E space \in 0..MaxSpace : StreamPoll(d, space)
    \/ LineRefill
    \/ \E id \in ProxyIds \ Registered : RegisterProxy(id)
    \/ \E id \in ProxyIds : \E b \in AppBytes : TxWrite(id, b)
    \/ \E b \in AppBytes : TxRefill(b)

\* The loop of the application calls poll() for ever, time passes between
\* the calls and the line takes what is written to it.
SpecStream ==
    /\ InitAsync
    /\ [][NextStream]_vars
    /\ WF_vars(StreamPoll(INTER_MESSAGE_DELAY, MaxSpace))


\* ------------------------------------------------------------------------
\* SerialFormatter on its own: formatResponse, formatEvent, parseCommandLine
\* ------------------------------------------------------------------------

\* Members a JsonObject of the model may have.
MaxPairs == 2

\* The paths and event names the caller formats with.
FormatPaths == { <<"p">>, <<"w","/","s">> }

\* The values of the data: bool, int, strings (one empty, one with inner
\* space, one with a comma), a nested object.
FormatValues ==
    { JBool(TRUE), JInt(0), JInt(-12), JStr(<<"x"," ","y">>), JStr(<<>>),
      JStr(<<"a",","," ","b">>), JObj(<<KV(<<"c">>, JInt(7))>>) }

\* The JsonObjects the caller formats: up to MaxPairs members with the keys
\* 'a' and 'b', keys distinct.
FormatData ==
    { JObj(kv) : kv \in
        { s \in UNION { [1..n -> { KV(k, v) : k \in { <<"a">>, <<"b">> },
                                              v \in FormatValues }]
                        : n \in 0..MaxPairs } :
            \A i, j \in DOMAIN s : s[i].k = s[j].k => i = j } }

\* A parameter as the client writes it: key, value, inside double quotes or
\* not.
ClientParams ==
    { [k |-> k, v |-> q.v, quoted |-> q.quoted] :
        k \in { <<"k">>, <<"j">> },
        q \in { [v |-> <<"a",","," ","b">>, quoted |-> TRUE],
                [v |-> <<"a","=","b">>,     quoted |-> TRUE],
                [v |-> <<"x">>,             quoted |-> TRUE],
                [v |-> <<"1">>,             quoted |-> FALSE] } }

\* The parameter lists of the client's lines: keys distinct.
ClientParamLists ==
    { s \in UNION { [1..n -> ClientParams] : n \in 1..MaxPairs } :
        \A i, j \in DOMAIN s : s[i].k = s[j].k => i = j }

\* The line '> SET p: key=value, key="value"' the client writes for a list.
RECURSIVE WriteParams(_, _)
WriteParams(ps, first) ==
    IF ps = <<>> THEN <<>>
    ELSE LET q == Head(ps)
         IN  (IF first THEN <<>> ELSE <<",">>) \o <<" ">> \o q.k \o <<"=">>
             \o (IF q.quoted THEN <<"\"">> \o q.v \o <<"\"">> ELSE q.v)
             \o WriteParams(Tail(ps), FALSE)
CommandLine(ps) == <<">"," ">> \o S_SET \o <<" ","p",":">> \o WriteParams(ps, TRUE)

\* The JsonObject made of a parameter map, its members in the order o
\* (handleCommand builds it member by member from the std::map).
ObjectOf(params, o) == JObj([i \in DOMAIN o |-> KV(o[i], JStr(params[o[i]]))])

\* formatResponse(method, path, data) is called.
FormatResponseCall(m, p, d) ==
    /\ formatterCall' = FormatterCall("formatResponse", m, p, d,
                                      formatResponse(m, p, d), <<>>)
    /\ UNCHANGED <<evars, avars, fvars, rvars, commandCall>>

\* formatEvent(name, data) is called.
FormatEventCall(n, d) ==
    /\ formatterCall' = FormatterCall("formatEvent", S_EVT, n, d, formatEvent(n, d), <<>>)
    /\ UNCHANGED <<evars, avars, fvars, rvars, commandCall>>

\* parseCommandLine is called with the text formatResponse returned.
ParseFormatted ==
    /\ formatterCall.fn = "formatResponse"
    /\ formatterCall' = [formatterCall EXCEPT !.fn = "parseCommandLine",
                                              !.parsed = parseCommandLine(formatterCall.text)]
    /\ UNCHANGED <<evars, avars, fvars, rvars, commandCall>>

\* formatResponse is called with what parseCommandLine returned.
FormatParsed ==
    /\ formatterCall.fn = "parseCommandLine"
    /\ formatterCall.data.t = "obj"
    /\ \E o \in [1..Cardinality(DOMAIN formatterCall.parsed.params)
                   -> DOMAIN formatterCall.parsed.params] :
          /\ \A i, j \in DOMAIN o : o[i] = o[j] => i = j
          /\ formatterCall' =
              [formatterCall EXCEPT
                  !.fn = "formatResponse of parsed",
                  !.text = formatResponse(formatterCall.parsed.method,
                                          formatterCall.parsed.path,
                                          ObjectOf(formatterCall.parsed.params, o))]
    /\ UNCHANGED <<evars, avars, fvars, rvars, commandCall>>

\* parseCommandLine is called with a line of the client.
ParseClientLine(ps) ==
    /\ formatterCall' = FormatterCall("parseCommandLine", S_SET, <<"p">>,
                                      [t |-> "line", params |-> ps],
                                      CommandLine(ps), parseCommandLine(CommandLine(ps)))
    /\ UNCHANGED <<evars, avars, fvars, rvars, commandCall>>

NextFormatter ==
    \/ \E m \in {S_GET, S_SET} : \E p \in FormatPaths : \E d \in FormatData :
          FormatResponseCall(m, p, d)
    \/ \E n \in FormatPaths : \E d \in FormatData : FormatEventCall(n, d)
    \/ ParseFormatted
    \/ FormatParsed
    \/ \E ps \in ClientParamLists : ParseClientLine(ps)

SpecFormatter == InitConstructed /\ [][NextFormatter]_vars


\* ------------------------------------------------------------------------
\* SerialAPIEndpoint::handleCommand on its own
\* ------------------------------------------------------------------------

\* The command lines handleCommand is called with: a prompt or none, a
\* method, a space, a path, and parameters or none; and lines that are too
\* short or have no space.
CommandPrompts == { <<">"," ">>, <<">">>, <<>> }
CommandMethods == { S_GET, S_SET, S_LIST, <<"F","O","O">>, <<"g","e","t">>, <<>> }
CommandPaths == { P_Sec, P_Cfg, S_api, <<"x">>, <<>> }
CommandParams ==
    { <<>>,
      <<":"," ","a","u","t","h",".","p","a","s","s","w","o","r","d","=","p","w">>,
      <<":"," ","a","u","t","h",".","p","a","s","s","w","o","r","d","=","n","o">>,
      <<":"," ","a","u","t","h",".","p","a","s","s","w","o","r","d","=","p","w",","," ","v","=","1">>,
      <<":"," ","v","=","1",","," ","a","u","t","h",".","p","a","s","s","w","o","r","d","=","p","w">>,
      <<":"," ","v","=","1">>,
      <<":"," ","a","u","t","h",".","p","a","s","s","w","o","r","d","=","p","w",","," ","a","u","t","h",".","u","s","e","r","=","u">> }
CommandLines ==
    { p \o m \o <<" ">> \o path \o t :
        p \in CommandPrompts, m \in CommandMethods, path \in CommandPaths,
        t \in CommandParams }
    \cup { <<">">>, <<"G","E","T">>, <<">","G","E","T">>, <<">"," ","G">>,
           <<">"," ","G","E","T","s","e","c">>, <<"S","E","T","c","f","g",":","v","=","1">> }

\* handleCommand is called with a fresh PendingCommand holding the line; a
\* call leaves nothing behind for the next, so one call is looked at.
HandleCommandCall(line) ==
    /\ ~commandCall.called
    /\ commandCall' = CommandCall(TRUE, line, handleCommand(line).response,
                                  handleCommand(line).calls)
    /\ UNCHANGED <<evars, avars, fvars, rvars, formatterCall>>

NextCommand == \E line \in CommandLines : HandleCommandCall(line)

SpecCommand == InitConstructed /\ [][NextCommand]_vars


\* ------------------------------------------------------------------------
\* The pass-through of the endpoint: its SerialProxy between the line and
\* the application
\* ------------------------------------------------------------------------

\* A message without the sigil, one byte longer than the model's inbound
\* buffer holds, and the bytes the application writes.
L_Plain == <<"r","s","t">>
PassThroughBytes == {"p", "q"}

\* The client sends pass-through messages; the application writes as many
\* bytes as the outbound buffer has slots and reads as many as the inbound
\* buffer has.
InitPassThrough ==
    /\ EndpointConstructed
    /\ budget = [messages |-> MaxMessages, events |-> 0,
                 writes |-> OUTPUT_BUFFER_SIZE, reads |-> INPUT_BUFFER_SIZE]
    /\ AsyncConstructed
    /\ lineInbox = <<>>
    /\ abudget = NoAsyncBudget
    /\ RingConstructed
    /\ formatterCall = NoFormatterCall
    /\ commandCall = NoCommandCall

\* processStateMachine while no sigil arrives: cases NONE, PROXY_RECEIVE and
\* PROXY_SEND.
PassThroughPoll(d) ==
    \/ PollNone(d)
    \/ PollProxyReceive(d)
    \/ PollProxySend(d)

NextPassThrough ==
    \/ \E d \in PollDelays : PassThroughPoll(d)
    \/ ClientSend(L_Plain, Len(L_Plain))
    \/ AppBegin
    \/ \E b \in PassThroughBytes : AppWrite(b)
    \/ AppRead

SpecPassThrough == InitPassThrough /\ [][NextPassThrough]_vars


\* ------------------------------------------------------------------------
\* Properties of the command channel (SerialAPIEndpoint)
\* ------------------------------------------------------------------------

\* The endpoint is outside the receive / process / respond cycle of a command.
OutsideCommandCycle == mode \in {"NONE", "PROXY_RECEIVE", "PROXY_SEND", "EVENT"}

\* A write that puts one whole handleCommand response on the line.
IsCommandResponse(b) ==
    /\ b.src = "api"
    /\ b.from = 0
    /\ Len(b.bytes) = b.of
    /\ b.bytes \notin {R_CommandTooLong, R_CommandTimeout}

CommandResponses == SelectSeq(wire, IsCommandResponse)

\* The latest step appended a write of event bytes to the line.
EventBytesWritten ==
    /\ Len(wire') > Len(wire)
    /\ wire'[Len(wire')].src = "evt"

\* C1: every command line completed by a newline, the first as well as the
\* later ones, has been handed to handleCommand exactly once and has had
\* exactly one response written in full by the time the endpoint is back
\* outside the command cycle.
C1_EveryLineAnsweredOnce ==
    OutsideCommandCycle =>
        /\ handled = received
        /\ Len(CommandResponses) = Len(received)

\* C2: when the endpoint leaves API_RESPOND or EVENT for NONE after the
\* response is sent in full, the PendingCommand is empty again: command and
\* response empty, send index 0, processed false.
C2_PendingCommandCleared ==
    [][(mode \in {"API_RESPOND", "EVENT"} /\ mode' \notin {"API_RESPOND", "EVENT"})
          => currentCommand' = NewPendingCommand]_vars

\* C3: when a poll finds the EVENT transmission complete and takes the
\* endpoint back to NONE, the event at the head of the queue has been written
\* to the line in full and is removed from the queue, the later events
\* keeping their order.
C3_EventSentThenRemoved ==
    [][(mode = "EVENT" /\ last'.case = "NONE") =>
          /\ eventQueue # <<>>
          /\ eventQueue' = Tail(eventQueue)
          /\ \E i \in 1..Len(wire') :
                /\ wire'[i].src = "evt"
                /\ wire'[i].from = 0
                /\ wire'[i].bytes = Head(eventQueue)]_vars

LeavesUnfinished(b) ==
    /\ b.src \in {"api", "evt"}
    /\ b.from + Len(b.bytes) < b.of

\* C5: the bytes of one response or event are contiguous on the line: a write
\* that leaves a response unfinished is followed by the write that continues
\* the same response, never by pass-through bytes or by another response.
C5_ResponsesContiguous ==
    \A i \in 1..Len(wire) :
        (LeavesUnfinished(wire[i]) /\ i < Len(wire)) =>
            /\ wire[i + 1].src = wire[i].src
            /\ wire[i + 1].of = wire[i].of
            /\ wire[i + 1].from = wire[i].from + Len(wire[i].bytes)

\* C5 witness: pass-through bytes and a whole response are next to each
\* other on the line.
C5_Witness ==
    \E i \in 1..(Len(wire) - 1) :
        /\ {wire[i].src, wire[i + 1].src} = {"proxy", "api"}
        /\ wire[i].bytes # <<>>
        /\ wire[i + 1].bytes # <<>>
        /\ \A j \in {i, i + 1} :
              wire[j].src = "api" => (wire[j].from = 0 /\ Len(wire[j].bytes) = wire[j].of)

X_GetStatusLine ==
    <<"<"," ","G","E","T"," ","w","i","f","i","/","s","t","a","t","u","s",":"," ","a","p",".","e","n","a","b","l","e","d","=","t","r","u","e","\n">>

\* C7: for the command line "> GET wifi/status" whose handler succeeds with
\* {ap: {enabled: true}}, the bytes written to the line are exactly
\* "< GET wifi/status: ap.enabled=true" followed by a newline.
C7_ResponseLineWritten ==
    (/\ handled = <<L_GetStatus>>
     /\ mode = "API_RESPOND"
     /\ currentCommand.sendIndex >= Len(currentCommand.response)
     /\ Len(wire) = 1)
        => wire[1].bytes = X_GetStatusLine

\* C8: a poll that finds the overflow flag set in API_RECEIVE after the line
\* was idle for more than MODE_RESET_DELAY writes exactly
\* "< ERROR: error=command too long" and a newline, resets the buffer index
\* and the overflow flag, and has nothing left to send, whatever commands
\* were completed before.
C8_OverflowAnswered ==
    [][(mode = "API_RECEIVE" /\ apiBufferOverflow /\ mode' = "API_RESPOND") =>
          /\ wire' = Append(wire, Burst("api", R_CommandTooLong, 0, Len(R_CommandTooLong)))
          /\ apiBuffer' = <<>>
          /\ ~apiBufferOverflow'
          /\ currentCommand'.sendIndex >= Len(currentCommand'.response)]_vars

\* The executeMethod calls made for a path.
IsSecCall(call) == call.path = P_Sec

\* C9: after the poll that processes a command line addressed to the method
\* that requires authentication, with auth.password missing or wrong, the
\* response is "< SET sec: error=authentication failed" and executeMethod
\* has not been invoked for the method.
C9_AuthFailureAnswered ==
    (/\ last.case = "API_PROCESS"
     /\ currentCommand.command \in {L_SetSecBad, L_SetSecNone})
        => /\ currentCommand.response = S_Lt \o formatError(S_SET, P_Sec, E_AuthFailed)
           /\ SelectSeq(execLog, IsSecCall) = <<>>


\* ------------------------------------------------------------------------
\* Properties of the transport scheduler (AsyncSerial)
\* ------------------------------------------------------------------------

\* The bytes pushToRx was called with on a proxy, in call order.
PushedBytes(id) == [i \in 1..Len(pushed[id]) |-> pushed[id][i].b]

\* pushToRx has refused a byte of the proxy: its inbound buffer was full.
Refused(id) == \E i \in 1..Len(pushed[id]) : ~pushed[id][i].ok

\* The bytes that went into the inbound buffer of a proxy: those its owner
\* has read and those the buffer holds.
TakenIn(id) == rxRead[id] \o RbContents(rxBuffer[id])

\* The bytes read from the line since a proxy was registered.
ReadSince(id) == SubSeq(lineRead, regAt[id] + 1, Len(lineRead))

Senders(writes) ==
    UNION { {writes[k].items[j].from : j \in DOMAIN writes[k].items} :
            k \in DOMAIN writes }

\* The Serial.write calls of the step.
NewLineWrites == SubSeq(lineOut', Len(lineOut) + 1, Len(lineOut'))

\* C11: in one poll() of the Write phase the bytes written to the line come
\* from at most one registered proxy: the items the poll hands to
\* Serial.write were all written by the same proxy object.
C11_OneProxyPerWrite ==
    [][state = "WRITE" => Cardinality(Senders(NewLineWrites)) <= 1]_vars

\* A Write-phase poll has sent a chunk of one proxy while another registered
\* proxy has bytes waiting in its outbound buffer.
C11_Witness ==
    /\ lineOut # <<>>
    /\ lineOut[Len(lineOut)].case = "WRITE"
    /\ \E id \in Registered :
          /\ Senders(<<lineOut[Len(lineOut)]>>) = {id}
          /\ \E other \in Registered \ {id} : txAvailable(other) > 0

\* A step in which the running flush call returns.
FlushReturns == flushPc # "none" /\ flushPc' = "none"

\* C13: flush(proxy) returns true only if the outbound buffer of the proxy
\* is empty when it returns; when the Flush phase ends its poll with bytes
\* of the proxy left, which takes SERIAL_TIMEOUT, flush returns false; and
\* what a poll of the Flush phase writes to the line comes from the proxy
\* flush was called for.
C13_FlushDrainsOrFails ==
    [][ /\ (FlushReturns /\ flushResult' = "true") => txAvailable(flushOwner) = 0
        /\ (flushPc = "check" /\ flushPc' # "check" /\ txAvailable(flushOwner) > 0)
              => (FlushReturns /\ flushResult' = "false")
        /\ (state = "FLUSH" /\ flushOwner # 0)
              => Senders(NewLineWrites) \subseteq {flushOwner} ]_vars

\* flush has sent bytes of its proxy in the Flush phase and returned true
\* while another registered proxy still has bytes waiting.
C13_Witness ==
    /\ flushPc = "none"
    /\ flushResult = "true"
    /\ \E k \in DOMAIN lineOut :
          /\ lineOut[k].case = "FLUSH"
          /\ \E other \in Registered \ Senders(<<lineOut[k]>>) :
                txAvailable(other) > 0

\* C14: every flush call returns after a bounded number of polls, each of
\* its waiting loops being bounded by the timeout: no flush call is still
\* in the loop that waits for Read or Write to end, about to call poll()
\* again, once SERIAL_TIMEOUT has passed since the call.
C14_FlushWaitBounded ==
    ~(flushPc = "waiting" /\ flushClock >= 1 /\ state \in {"READ", "WRITE"})

\* C15: when flush returns, with true or with false, the scheduler is in
\* Idle and the flush lock has no owner.
C15_FlushLeavesIdle ==
    [][FlushReturns => (state' = "IDLE" /\ flushOwner' = 0)]_vars

\* C16: while the flush lock is owned by a proxy, every byte poll() writes
\* to the line comes from the outbound buffer of that proxy.
C16_OnlyLockOwnerTransmits ==
    [][flushOwner # 0 => Senders(NewLineWrites) \subseteq {flushOwner}]_vars

\* C17: registerProxy returns true and appends the proxy while fewer than
\* MAX_PROXIES are registered, and returns false leaving the registry as it
\* is once MAX_PROXIES are registered; the number of registered proxies
\* never exceeds MAX_PROXIES and never decreases.
C17_RegistryCeiling ==
    [][ /\ Len(proxies) < MAX_PROXIES
            => /\ regResult' = "true"
               /\ \E id \in ProxyIds : proxies' = Append(proxies, NewProxyState(id))
        /\ Len(proxies) >= MAX_PROXIES
            => (regResult' = "false" /\ proxies' = proxies)
        /\ Len(proxies') <= MAX_PROXIES
        /\ Len(proxies') >= Len(proxies) ]_vars

\* The registry is full and a further registerProxy call has been refused.
C17_Witness == Len(proxies) = MAX_PROXIES /\ regResult = "false"


\* ------------------------------------------------------------------------
\* Properties of RingBuffer
\* ------------------------------------------------------------------------

\* C18: after any sequence of write, bulk write, read, peek and clear calls
\* 0 <= available() <= SIZE; a write of one item is accepted iff
\* available() < SIZE, and a bulk write of length L iff
\* SIZE - available() >= L.
C18_RingCapacity ==
    /\ RbAvailable(ring) \in 0..RING_SIZE
    /\ ringLast.op = "write"
          => (ringLast.ok <=> RbAvailable(ringLast.before) < RING_SIZE)
    /\ ringLast.op = "bulk"
          => (ringLast.ok <=>
                RING_SIZE - RbAvailable(ringLast.before) >= Len(ringLast.arg))

\* The buffer is full, its indices have wrapped, and a write of one item
\* has just been refused.
C18_Witness ==
    /\ RbAvailable(ring) = RING_SIZE
    /\ ring.readIndex # 0
    /\ ringLast.op = "write"
    /\ ~ringLast.ok

\* C19: a refused call leaves the RingBuffer as it was: a bulk write
\* without enough free space stores none of its items, and a write on a full
\* buffer, a read or a peek on an empty one return false with the contents,
\* the read index, the write index and the count unchanged.
C19_RefusalChangesNothing ==
    (ringLast.op \in {"write", "bulk", "read", "peek"} /\ ~ringLast.ok)
        => /\ ring = ringLast.before
           /\ RbContents(ring) = RbContents(ringLast.before)

\* A bulk write has just been refused although a prefix of it would have
\* fitted into the free space.
C19_Witness ==
    /\ ringLast.op = "bulk"
    /\ ~ringLast.ok
    /\ RbAvailable(ringLast.before) \in 1..(RING_SIZE - 1)
    /\ Len(ringLast.arg) <= RING_SIZE

\* C20: FIFO across the wraparound of the indices: the items the reads
\* return, followed by the items still held, are the accepted items in the
\* order written, one item at a time or in bulk; and peek returns the item
\* the next read returns and consumes nothing.
C20_RingFifo ==
    /\ ringOut \o RbContents(ring) = ringAccepted
    /\ (ringLast.op = "read" /\ ringLast.ok)
          => ringLast.data = Head(RbContents(ringLast.before))
    /\ (ringLast.op = "peek" /\ ringLast.ok)
          => /\ ringLast.data = RbRead(ring).data
             /\ ring = ringLast.before

\* More items than the array holds have been accepted, the write index has
\* wrapped to or below the read index, and a read has just returned an item
\* with others still held.
C20_Witness ==
    /\ ringLast.op = "read"
    /\ ringLast.ok
    /\ ringLast.before.writeIndex <= ringLast.before.readIndex
    /\ Len(ringAccepted) > RING_SIZE
    /\ RbAvailable(ring) > 0


\* ------------------------------------------------------------------------
\* SerialAPIEndpoint: the event queue, the framing of lines, failures
\* ------------------------------------------------------------------------

\* The event the application pushes when it may still push n of them.
PushedWith(n) == formatEvent(<<"e">>, JObj(<<KV(<<"k">>, JInt(n))>>))

\* C21: the event queue never holds more than QUEUE_SIZE entries, and a push
\* is never refused: after it the queue holds the most recent pushes, up to
\* QUEUE_SIZE of them, in the order they were pushed (the push onto a full
\* queue drops the oldest entry).
C21_DropOldestQueue ==
    [][/\ Len(eventQueue') <= QUEUE_SIZE
       /\ budget'.events < budget.events =>
            /\ Len(eventQueue') = Min(Len(eventQueue) + 1, QUEUE_SIZE)
            /\ \A i \in 1..Len(eventQueue') :
                  eventQueue'[i] = PushedWith(budget'.events + Len(eventQueue') - i + 1)]_vars

\* QUEUE_SIZE + 1 events were pushed into the empty queue.
C21_Witness ==
    /\ budget.events = 0
    /\ Len(eventQueue) = QUEUE_SIZE
    /\ eventQueue[QUEUE_SIZE] = PushedWith(1)
    /\ eventQueue[1] = PushedWith(QUEUE_SIZE)


\* The key/value pairs of a parameter map.
ParamPairs(params) == { <<k, params[k]>> : k \in DOMAIN params }

\* The dot-flattened key/value set of the members of a JsonObject, the
\* values as text.
RECURSIVE FlatPairs(_, _)
FlatPairs(pairs, prefix) ==
    IF pairs = <<>> THEN {}
    ELSE LET p   == Head(pairs)
             key == IF prefix = <<>> THEN p.k ELSE prefix \o <<".">> \o p.k
         IN  (IF p.v.t = "obj" THEN FlatPairs(p.v.kv, key)
              ELSE { <<key, RenderValue(p.v)>> })
             \cup FlatPairs(Tail(pairs), prefix)

\* The flat form can carry the data: no value holds a comma or a double
\* quote or starts or ends with white space.
FlatRepresentable(data) ==
    \A kv \in FlatPairs(data.kv, <<>>) :
        /\ \A i \in 1..Len(kv[2]) : kv[2][i] \notin {",", "\""}
        /\ Trim(kv[2]) = kv[2]

\* C22: for data the flat form can carry, parseCommandLine of the text of
\* formatResponse(m, p, data) returns method m, path p and a parameter map
\* that equals the dot-flattened key/value set of data; the text formatted
\* from the parsed result parses to the same key/value set again.
C22_FramingRoundTrip ==
    (formatterCall.data.t = "obj" /\ FlatRepresentable(formatterCall.data)) =>
        /\ formatterCall.fn = "parseCommandLine" =>
              /\ formatterCall.parsed.method = formatterCall.method
              /\ formatterCall.parsed.path = formatterCall.path
              /\ ParamPairs(formatterCall.parsed.params)
                   = FlatPairs(formatterCall.data.kv, <<>>)
        /\ formatterCall.fn = "formatResponse of parsed" =>
              LET again == parseCommandLine(formatterCall.text)
              IN  /\ again.method = formatterCall.method
                  /\ again.path = formatterCall.path
                  /\ ParamPairs(again.params) = FlatPairs(formatterCall.data.kv, <<>>)

\* Data with a string, an empty string and a nested object went through
\* format, parse and format.
C22_Witness ==
    /\ formatterCall.fn = "formatResponse of parsed"
    /\ formatterCall.data.t = "obj"
    /\ FlatRepresentable(formatterCall.data)
    /\ Cardinality(FlatPairs(formatterCall.data.kv, <<>>)) = 2
    /\ \E kv \in FlatPairs(formatterCall.data.kv, <<>>) : kv[1] = <<"a",".","c">>
    /\ \E kv \in FlatPairs(formatterCall.data.kv, <<>>) : kv[2] = <<"x"," ","y">>


\* C23: parseCommandLine extracts every comma-separated key=value parameter
\* of a line; commas and '=' inside double quotes belong to the value and
\* the surrounding quotes are stripped, wherever the quoted value stands,
\* the end of the line included.
C23_QuotedValuesExtracted ==
    (formatterCall.fn = "parseCommandLine" /\ formatterCall.data.t = "line") =>
        ParamPairs(formatterCall.parsed.params)
          = { <<formatterCall.data.params[i].k, formatterCall.data.params[i].v>> :
                i \in DOMAIN formatterCall.data.params }

\* The number of places where sub occurs in s.
Occurrences(sub, s) ==
    Cardinality({ i \in 0..(Len(s) - Len(sub)) : Substring(s, i, i + Len(sub)) = sub })

\* C24: the text of formatEvent(name, data) is 'EVT name:' followed by the
\* flattened list formatResponse makes of data, and 'EVT name:' occurs in it
\* once.
C24_EventPrefixOnce ==
    formatterCall.fn = "formatEvent" =>
        /\ formatterCall.text
             = formatResponse(S_EVT, formatterCall.path, formatterCall.data)
        /\ Occurrences(S_EVT \o <<" ">> \o formatterCall.path \o <<":">>,
                       formatterCall.text) = 1


\* C25: a valid command whose path is no registered serial method is
\* answered '< METHOD path: error=method not found', a failed authentication
\* '... error=authentication failed', a failed executeMethod call
\* '... error=wrong request or parameters', and after handling the command
\* the endpoint is in API_RESPOND.
C25_DispatchFailuresAnswered ==
    last.case = "API_PROCESS" =>
        /\ mode = "API_RESPOND"
        /\ currentCommand.command = L_GetUnknown =>
              currentCommand.response
                = S_Lt \o formatError(S_GET, <<"x">>, E_MethodNotFound)
        /\ currentCommand.command \in {L_SetSecBad, L_SetSecNone} =>
              currentCommand.response
                = S_Lt \o formatError(S_SET, P_Sec, E_AuthFailed)
        /\ currentCommand.command = L_SetCfgNone =>
              currentCommand.response
                = S_Lt \o formatError(S_SET, P_Cfg, E_WrongRequest)


\* The bytes of a sequence after its first newline.
AfterNewline(bytes) ==
    LET i == CHOOSE i \in 1..Len(bytes) :
                 bytes[i] = "\n" /\ \A j \in 1..(i - 1) : bytes[j] # "\n"
    IN  SubSeq(bytes, i + 1, Len(bytes))

\* C26: when case API_RECEIVE runs with the overflow flag set and the line
\* holds a newline within the bytes it may read, the endpoint leaves
\* API_RECEIVE and the bytes after that newline stay on the line.
C26_NewlineEndsDiscarding ==
    [][(/\ mode = "API_RECEIVE"
        /\ apiBufferOverflow
        /\ last'.case = "API_RECEIVE"
        /\ \E i \in 1..Min(Len(serialIn), RX_CHUNK_SIZE) : serialIn[i] = "\n")
          => /\ mode' # "API_RECEIVE"
             /\ serialIn' = AfterNewline(serialIn)]_vars


\* C27: when API_RECEIVE holds at least one byte, the overflow flag is not
\* set and the poll finds more than MODE_RESET_DELAY passed since the last
\* transfer, the response becomes '< ERROR: error=command timeout\n', the
\* mode becomes API_RESPOND, the response is written in full, and the buffer
\* index and the overflow flag are reset.
C27_TimeoutAnswered ==
    [][(/\ mode = "API_RECEIVE"
        /\ ~apiBufferOverflow
        /\ apiBufferIndex > 0
        /\ mode' = "API_RESPOND")
          => /\ currentCommand'.response = R_CommandTimeout
             /\ wire' = Append(wire, Burst("api", R_CommandTimeout, 0, Len(R_CommandTimeout)))
             /\ apiBuffer' = <<>>
             /\ ~apiBufferOverflow'
             /\ currentCommand'.sendIndex = Len(R_CommandTimeout)]_vars


\* C28: a poll that runs case API_PROCESS, API_RESPOND or EVENT reads no
\* byte from the line, and the poll that completes a command reads up to its
\* newline and leaves what follows on the line.
C28_NoPipelining ==
    [][/\ last'.case \in {"API_PROCESS", "API_RESPOND", "EVENT"} =>
            /\ last'.rd = <<>>
            /\ serialIn' = serialIn
       /\ (last'.case = "API_RECEIVE" /\ mode' = "API_PROCESS") =>
            /\ last'.rd # <<>>
            /\ last'.rd[Len(last'.rd)] = "\n"
            /\ serialIn = last'.rd \o serialIn']_vars

\* The response of a command is being sent while the next command line
\* waits on the line.
C28_Witness ==
    /\ mode = "API_RESPOND"
    /\ last.case = "API_RESPOND"
    /\ Len(received) = 1
    /\ serialIn # <<>>
    /\ serialIn[1] = ">"


\* The bytes of the latest write of response or event text.
LastResponseBurst ==
    LET at == { i \in DOMAIN wire : wire[i].src \in {"api", "evt"} }
    IN  IF at = {} THEN <<>>
        ELSE wire[CHOOSE i \in at : \A j \in at : j <= i].bytes

\* C29: API_RESPOND and EVENT are left only with sendIndex at or beyond the
\* length of the response; while the endpoint stays in them sendIndex does
\* not decrease; after a poll of these cases the response stands on the
\* line once, whole and in order, with sendIndex at its length; and for an
\* empty response nothing is written.
C29_ResponseWrittenOnce ==
    [][/\ (mode \in {"API_RESPOND", "EVENT"} /\ mode' \notin {"API_RESPOND", "EVENT"}) =>
            currentCommand.sendIndex >= Len(currentCommand.response)
       /\ (mode \in {"API_RESPOND", "EVENT"} /\ mode' \in {"API_RESPOND", "EVENT"}) =>
            currentCommand'.sendIndex >= currentCommand.sendIndex
       /\ last'.case \in {"API_RESPOND", "EVENT"} =>
            /\ currentCommand'.sendIndex = Len(currentCommand'.response)
            /\ currentCommand'.response # <<>> =>
                  LastResponseBurst' = currentCommand'.response
            /\ currentCommand'.response = <<>> => wire' = wire]_vars


\* C30: when from some time on the line holds inbound bytes at every poll,
\* a registered proxy with outbound bytes waiting still gets them sent.
C30_WriteNotStarved ==
    \A id \in ProxyIds :
        <>[](lineIn # <<>>) =>
            ((id \in Registered /\ txAvailable(id) > 0) ~> (txAvailable(id) = 0))


\* C31: writers are served in turn.  Once the inbound stream has gone quiet,
\* a registered proxy with outbound bytes waiting gets them sent, also when
\* the proxy registered before it keeps writing more into its own buffer.
C31_WritersServedInTurn ==
    \A id \in ProxyIds :
        <>[](lineIn = <<>>) =>
            ((id \in Registered /\ txAvailable(id) > 0) ~> (txAvailable(id) = 0))


\* C32: inter-message spacing.  Every chunk that case WRITE puts on the line
\* comes at least the inter-message delay after the bytes of the same proxy
\* that were written to the line before it, by case WRITE or by case FLUSH.
C32_InterMessageSpacing ==
    \A k \in DOMAIN lineOut :
        lineOut[k].case = "WRITE" => lineOut[k].gap >= INTER_MESSAGE_DELAY


\* C33: after a successful authentication the credential is not handed on.
\* The argument object of an executeMethod call for a method that requires
\* authentication has no auth.password member, and when auth.password was
\* the only parameter of the line the call gets no argument object.
C33_CredentialRemoved ==
    \A i \in DOMAIN commandCall.calls.exec :
        LET call   == commandCall.calls.exec[i]
            params == parseCommandLine(commandCall.line).params
        IN  getMethods[call.path].auth.enabled =>
                /\ IsNull(call.args) \/ S_AuthPassword \notin DOMAIN call.args.params
                /\ DOMAIN params = {S_AuthPassword} => IsNull(call.args)

\* An authenticated command with a further parameter has reached its
\* handler, which got that parameter.
C33_Witness ==
    /\ commandCall.called
    /\ commandCall.calls.exec # <<>>
    /\ commandCall.calls.exec[1].path = P_Sec
    /\ commandCall.calls.exec[1].ran
    /\ ~IsNull(commandCall.calls.exec[1].args)
    /\ DOMAIN commandCall.calls.exec[1].args.params = {<<"v">>}
    /\ S_AuthPassword \in DOMAIN parseCommandLine(commandCall.line).params


\* C34: a command line whose method is not GET, SET or LIST, or whose method
\* or path is empty, is answered '< METHOD path: error=invalid command', and
\* handling it calls neither getMethods nor executeMethod of the registry.
C34_InvalidCommandAnswered ==
    LET cmd == parseCommandLine(currentCommand.command)
    IN  (last.case = "API_PROCESS" /\ ~IsValidCommand(cmd)) =>
            /\ currentCommand.response
                  = S_Lt \o formatError(cmd.method, cmd.path, E_InvalidCommand)
            /\ handleCommand(currentCommand.command).calls = NoCalls


\* C35: while the scheduler is in FLUSH the flush lock has an owner, and no
\* poll has taken a null owner for a proxy.
C35_FlushHasOwner ==
    /\ state = "FLUSH" => flushOwner # 0
    /\ ~crashed


\* C36: the send index of the PendingCommand never lies beyond the end of
\* its response.
C36_SendIndexWithinResponse ==
    currentCommand.sendIndex <= Len(currentCommand.response)


\* The entries of the registry whose isActive flag is set.
ActiveEntries(ps) == {i \in DOMAIN ps : ps[i].isActive}

\* C37: the isActive flags.  At most one registry entry is active; none is
\* in IDLE, READ and FLUSH, exactly one in WRITE; and the scheduler leaves
\* WRITE only for IDLE, in the poll that empties the active proxy's outbound
\* buffer and clears its flag.
C37_ActiveFlag ==
    /\ [](/\ Cardinality(ActiveEntries(proxies)) <= 1
          /\ state \in {"IDLE", "READ", "FLUSH"} => ActiveEntries(proxies) = {}
          /\ state = "WRITE" => Cardinality(ActiveEntries(proxies)) = 1)
    /\ [][(state = "WRITE" /\ state' # "WRITE") =>
            /\ state' = "IDLE"
            /\ ActiveEntries(proxies') = {}
            /\ \A i \in ActiveEntries(proxies) :
                  /\ txAvailable(proxies[i].proxy) > 0
                  /\ RbAvailable(txBuffer'[proxies[i].proxy]) = 0]_vars

\* Two registered proxies have bytes waiting and the scheduler is in WRITE,
\* serving one of them.
C37_Witness ==
    /\ state = "WRITE"
    /\ Len(proxies) = 2
    /\ \A id \in Registered : txAvailable(id) > 0
    /\ Cardinality(ActiveEntries(proxies)) = 1


\* C38: the command buffer.  _apiBufferIndex stays within 0 and
\* API_BUFFER_SIZE - 1, so every byte is stored below API_BUFFER_SIZE; and
\* in API_RECEIVE the buffer holds at least the sigil, so the timeout of an
\* empty command is never met.
C38_CommandBufferBounds ==
    /\ apiBufferIndex >= 0
    /\ apiBufferIndex <= API_BUFFER_SIZE - 1
    /\ mode = "API_RECEIVE" => apiBufferIndex >= 1

\* The buffer is full: a line longer than it is being received and the
\* rest of it is discarded.
C38_Witness ==
    /\ mode = "API_RECEIVE"
    /\ apiBufferIndex = API_BUFFER_SIZE - 1
    /\ apiBufferOverflow
    /\ last.case = "API_RECEIVE"


\* The bytes of the writeToInput calls px that the proxy accepted.
AcceptedBytes(px) ==
    [i \in 1..Len(SelectSeq(px, LAMBDA e : e.n = 1)) |->
        SelectSeq(px, LAMBDA e : e.n = 1)[i].b]

C40_ProxyCapacityAndFifo ==
    /\ [](/\ ProxyAvailable(proxy) <= INPUT_BUFFER_SIZE - 1
          /\ AvailableForWrite(proxy) <= OUTPUT_BUFFER_SIZE - 1)
    /\ [][budget'.writes # budget.writes =>
            IF ~proxy.initialized \/ AvailableForWrite(proxy) = OUTPUT_BUFFER_SIZE - 1
            THEN /\ proxy' = proxy
                 /\ \A b \in PassThroughBytes : ProxyWrite(proxy, b).n = 0
            ELSE /\ \E b \in PassThroughBytes :
                        OutputContents(proxy') = Append(OutputContents(proxy), b)
                 /\ InputContents(proxy') = InputContents(proxy)]_vars
    /\ [][last'.px # <<>> =>
            LET room == IF proxy.initialized
                        THEN INPUT_BUFFER_SIZE - 1 - ProxyAvailable(proxy) ELSE 0
            IN  /\ serialIn = last'.rd \o serialIn'
                /\ Len(last'.px) = Len(last'.rd)
                /\ \A i \in DOMAIN last'.px :
                      /\ last'.px[i].b = last'.rd[i]
                      /\ last'.px[i].n = IF i <= room THEN 1 ELSE 0
                /\ InputContents(proxy') = InputContents(proxy) \o AcceptedBytes(last'.px)
                /\ OutputContents(proxy') = OutputContents(proxy)
                /\ mode' = "PROXY_RECEIVE"
                /\ UNCHANGED <<wire, currentCommand>>]_vars
    /\ [][budget'.reads # budget.reads =>
            /\ appRead' = Append(appRead, Head(InputContents(proxy)))
            /\ InputContents(proxy') = Tail(InputContents(proxy))
            /\ OutputContents(proxy') = OutputContents(proxy)]_vars
    /\ [][last'.case = "PROXY_SEND" /\ last'.wr > 0 =>
            /\ wire' = Append(wire, Burst("proxy",
                                          SubSeq(OutputContents(proxy), 1, last'.wr), 0, 0))
            /\ OutputContents(proxy')
                 = SubSeq(OutputContents(proxy), last'.wr + 1, Len(OutputContents(proxy)))
            /\ InputContents(proxy') = InputContents(proxy)]_vars

\* Both buffers of the begun proxy are full: writes as many as the outbound
\* buffer has slots were made and nothing was sent, and the poll just made
\* had a byte refused by writeToInput.
C40_Witness ==
    /\ proxy.initialized
    /\ ProxyAvailable(proxy) = INPUT_BUFFER_SIZE - 1
    /\ AvailableForWrite(proxy) = OUTPUT_BUFFER_SIZE - 1
    /\ budget.writes = 0
    /\ wire = <<>>
    /\ last.case = "PROXY_RECEIVE"
    /\ \E i \in DOMAIN last.px : last.px[i].n = 0

====
